---------------------------- MODULE Spec2Model ----------------------------
(***************************************************************************)
(* A model of the smtp-codec wire codec: the streaming (nom) parsers for   *)
(* SMTP commands and replies, and the serializers of the value types.      *)
(*                                                                         *)
(* Bytes are one-character strings and byte strings are TLA+ strings; Ord  *)
(* gives a byte its numeric value, so the byte classes are the numeric     *)
(* ranges of the source.  The byte domain is HT, LF, FF, CR and the        *)
(* printable characters except the backquote (which a TLA+ string cannot   *)
(* hold).  A parser P(s, i) reads s from the 1-based offset i and returns  *)
(* nom's IResult: Ok (with the offset after the match and the value),      *)
(* Err::Incomplete or Err::Error; Panic stands for an unwinding panic.     *)
(***************************************************************************)
EXTENDS Integers, Sequences, FiniteSets, TLC

VARIABLES
    parser,   \* the entry point exercised: command, Greeting, ehlo_ok_rsp, Reply_line
    input,    \* the caller's buffer
    pc,       \* position of the harness
    res,      \* result of the parser on input
    cut,      \* length of the prefix handed to the parser by the framing layer
    pres,     \* result of the parser on the first cut bytes of input
    msg,      \* the value handed to the serializer
    wire,     \* the serializer's output
    res2      \* result of the parser on wire

vars == <<parser, input, pc, res, cut, pres, msg, wire, res2>>

-----------------------------------------------------------------------------
(* Bytes *)

LowChars == " !\"#$%&'()*+,-./0123456789:;<=>?@ABCDEFGHIJKLMNOPQRSTUVWXYZ[\\]^_"
HighChars == "abcdefghijklmnopqrstuvwxyz{|}~"

Bytes ==
    {SubSeq(LowChars, k, k) : k \in 1..Len(LowChars)}
        \cup {SubSeq(HighChars, k, k) : k \in 1..Len(HighChars)}
        \cup {"\t", "\n", "\f", "\r"}

Ord ==
    [c \in Bytes |->
        CASE c = "\t" -> 9
          [] c = "\n" -> 10
          [] c = "\f" -> 12
          [] c = "\r" -> 13
          [] \E k \in 1..Len(LowChars) : SubSeq(LowChars, k, k) = c ->
                31 + (CHOOSE k \in 1..Len(LowChars) : SubSeq(LowChars, k, k) = c)
          [] OTHER ->
                96 + (CHOOSE k \in 1..Len(HighChars) : SubSeq(HighChars, k, k) = c)]

Chr(n) ==
    IF n \in 32..95 THEN SubSeq(LowChars, n - 31, n - 31)
    ELSE SubSeq(HighChars, n - 96, n - 96)

At(s, i) == SubSeq(s, i, i)

Rest(s, i) == SubSeq(s, i, Len(s))

\* A variant of the case folding that folds nothing: bytes compare as written.
lowercase_byte_verbatim(c) == c

lowercase_byte(c) == IF Ord[c] \in 65..90 THEN Chr(Ord[c] + 32) ELSE c

to_lowercase[s \in STRING] ==
    IF Len(s) = 0 THEN s ELSE lowercase_byte(At(s, 1)) \o to_lowercase[Rest(s, 2)]

\* Byte classes are the sets of bytes their predicates accept.
is_ALPHA == {c \in Bytes : Ord[c] \in 65..90 \/ Ord[c] \in 97..122}

is_DIGIT == {c \in Bytes : Ord[c] \in 48..57}

is_hex_digit == {c \in Bytes : Ord[c] \in 48..57 \/ Ord[c] \in 65..70 \/ Ord[c] \in 97..102}

-----------------------------------------------------------------------------
(* nom: results and streaming combinators.  A parser handed to a repetition *)
(* is the function from offsets to its results.  A result that is used more *)
(* than once is bound as the element of a singleton,                        *)
(*     CHOOSE out_r \in {e(r) : r \in {result}} : TRUE  is  e(result),       *)
(* so that it is computed once.  In a sequence (sequence::tuple, preceded,  *)
(* delimited) the next parser runs only after an Ok, at the position the    *)
(* previous one reached, and any other result is the result of the whole.   *)

Ok(p, v) == [st |-> "Ok", pos |-> p, val |-> v]

Incomplete == [st |-> "Incomplete"]

Error == [st |-> "Error"]

Panic == [st |-> "Panic"]

Offsets(s) == 1..(Len(s) + 1)

\* The least element of a nonempty set of numbers
least(S) == CHOOSE k \in S : \A m \in S : k <= m

\* A variant of alt that moves on after Err::Incomplete as well.
alt_any_failure(rs) ==
    CHOOSE out_a \in {
        IF \A k \in DOMAIN a : a[k].st \in {"Error", "Incomplete"} THEN Error
        ELSE a[least({k \in DOMAIN a : a[k].st \notin {"Error", "Incomplete"}})]
        : a \in {rs}} : TRUE

\* A variant of alt that tries its first branch only.
alt_first_branch(rs) == rs[1]

\* branch::alt over the results of the branches in their order: only Err::Error
\* moves on to the next branch, and the first other result is the result.
alt(rs) ==
    CHOOSE out_a \in {
        IF \A k \in DOMAIN a : a[k].st = "Error" THEN Error
        ELSE a[least({k \in DOMAIN a : a[k].st /= "Error"})]
        : a \in {rs}} : TRUE

\* A variant of opt that passes Err::Error on: the parser is required.
opt_required(r, i) ==
    (CHOOSE out_a \in {IF a.st = "Ok" THEN Ok(a.pos, <<a.val>>) ELSE a : a \in {r}} : TRUE)

\* combinator::opt: Err::Error becomes None, nothing consumed.
opt(r, i) ==
    (CHOOSE out_a \in {IF a.st = "Error" THEN Ok(i, <<>>)
         ELSE IF a.st = "Ok" THEN Ok(a.pos, <<a.val>>)
         ELSE a
         : a \in {r}} : TRUE)

\* A variant of recognize that returns the bytes from the start of the buffer.
recognize_from_start(r, s, i) ==
    (CHOOSE out_a \in {IF a.st = "Ok" THEN Ok(a.pos, SubSeq(s, 1, a.pos - 1)) ELSE a : a \in {r}} : TRUE)

\* combinator::recognize: the matched bytes.
recognize(r, s, i) ==
    (CHOOSE out_a \in {IF a.st = "Ok" THEN Ok(a.pos, SubSeq(s, i, a.pos - 1)) ELSE a : a \in {r}} : TRUE)

\* combinator::value, and map with a constant result.
value(v, r) == (CHOOSE out_a \in {IF a.st = "Ok" THEN Ok(a.pos, v) ELSE a : a \in {r}} : TRUE)

Min(a, b) == IF a < b THEN a ELSE b

\* bytes::streaming::tag
tag[t \in STRING, s \in STRING, i \in Nat] ==
    (CHOOSE out_avail \in {(CHOOSE out_m \in {
        IF SubSeq(s, i, i + m - 1) /= SubSeq(t, 1, m) THEN Error
        ELSE IF avail < Len(t) THEN Incomplete
        ELSE Ok(i + Len(t), SubSeq(s, i, i + Len(t) - 1))
        : m \in {Min(Len(t), avail)}} : TRUE)
        : avail \in {Len(s) - i + 1}} : TRUE)

\* bytes::streaming::tag_no_case
tag_no_case[t \in STRING, s \in STRING, i \in Nat] ==
    (CHOOSE out_avail \in {(CHOOSE out_m \in {
        IF to_lowercase[SubSeq(s, i, i + m - 1)] /= to_lowercase[SubSeq(t, 1, m)] THEN Error
        ELSE IF avail < Len(t) THEN Incomplete
        ELSE Ok(i + Len(t), SubSeq(s, i, i + Len(t) - 1))
        : m \in {Min(Len(t), avail)}} : TRUE)
        : avail \in {Len(s) - i + 1}} : TRUE)

\* The offset of the first byte from i on that is not in the class; Len(s) + 1 if none.
position[class \in SUBSET STRING, s \in STRING, i \in Nat] ==
    least({j \in i..Len(s) : At(s, j) \notin class} \cup {Len(s) + 1})

\* bytes::streaming::take_while
take_while[class \in SUBSET STRING, s \in STRING, i \in Nat] ==
    (CHOOSE out_j \in {
        IF j > Len(s) THEN Incomplete ELSE Ok(j, SubSeq(s, i, j - 1))
        : j \in {position[class, s, i]}} : TRUE)

\* bytes::streaming::take_while1 (and character::streaming::digit1)
take_while1[class \in SUBSET STRING, s \in STRING, i \in Nat] ==
    (CHOOSE out_j \in {
        IF j > Len(s) THEN Incomplete
        ELSE IF j = i THEN Error
        ELSE Ok(j, SubSeq(s, i, j - 1))
        : j \in {position[class, s, i]}} : TRUE)

\* bytes::streaming::take_while_m_n
take_while_m_n[m \in Nat, n \in Nat, class \in SUBSET STRING, s \in STRING, i \in Nat] ==
    (CHOOSE out_j \in {(CHOOSE out_idx \in {(CHOOSE out_len \in {
        IF j <= Len(s)
        THEN IF idx >= m
             THEN IF idx <= n THEN Ok(j, SubSeq(s, i, j - 1))
                  ELSE Ok(i + n, SubSeq(s, i, i + n - 1))
             ELSE Error
        ELSE IF len >= n THEN Ok(i + n, SubSeq(s, i, i + n - 1)) ELSE Incomplete
        : len \in {Len(s) - i + 1}} : TRUE)
        : idx \in {j - i}} : TRUE)
        : j \in {position[class, s, i]}} : TRUE)

\* A variant of many0 that ends the repetition at Err::Incomplete as well.
RECURSIVE many0_loop_complete(_, _, _)
many0_loop_complete(P, j, acc) ==
    (CHOOSE out_r \in {
        IF r.st = "Ok" /\ r.pos /= j THEN many0_loop_complete(P, r.pos, Append(acc, r.val))
        ELSE IF r.st = "Ok" THEN Error
        ELSE Ok(j, acc)
        : r \in {P[j]}} : TRUE)

\* multi::many0: stops at Err::Error, fails if the element consumed nothing.
RECURSIVE many0_loop(_, _, _)
many0_loop(P, j, acc) ==
    (CHOOSE out_r \in {
        IF r.st = "Ok" /\ r.pos /= j THEN many0_loop(P, r.pos, Append(acc, r.val))
        ELSE IF r.st = "Ok" THEN Error
        ELSE IF r.st = "Error" THEN Ok(j, acc)
        ELSE r
        : r \in {P[j]}} : TRUE)

\* A variant of many0 that never applies its element.
many0_never(P, i) == Ok(i, <<>>)

many0(P, i) == many0_loop(P, i, <<>>)

\* multi::many_m_n
RECURSIVE many_m_n_loop(_, _, _, _, _)
many_m_n_loop(min, max, P, j, acc) ==
    IF Len(acc) = max THEN Ok(j, acc)
    ELSE (CHOOSE out_r \in {
             IF r.st = "Ok" /\ r.pos /= j
             THEN many_m_n_loop(min, max, P, r.pos, Append(acc, r.val))
             ELSE IF r.st = "Ok" THEN Error
             ELSE IF r.st = "Error" THEN (IF Len(acc) < min THEN Error ELSE Ok(j, acc))
             ELSE r
             : r \in {P[j]}} : TRUE)

many_m_n(min, max, P, i) == many_m_n_loop(min, max, P, i, <<>>)

\* multi::count
RECURSIVE count_loop(_, _, _, _)
count_loop(P, n, j, acc) ==
    IF Len(acc) = n THEN Ok(j, acc)
    ELSE (CHOOSE out_r \in {
             IF r.st = "Ok" THEN count_loop(P, n, r.pos, Append(acc, r.val)) ELSE r
             : r \in {P[j]}} : TRUE)

count(P, n, i) == count_loop(P, n, i, <<>>)

\* multi::separated_list0: an element that fails after a separator gives the
\* separator back.
RECURSIVE separated_list_loop(_, _, _, _)
separated_list_loop(Sep, P, j, acc) ==
    (CHOOSE out_rs \in {
        IF rs.st = "Ok" /\ rs.pos /= j
        THEN (CHOOSE out_r \in {
            IF r.st = "Ok" THEN separated_list_loop(Sep, P, r.pos, Append(acc, r.val))
            ELSE IF r.st = "Error" THEN Ok(j, acc)
            ELSE r
            : r \in {P[rs.pos]}} : TRUE)
        ELSE IF rs.st = "Ok" THEN Error
        ELSE IF rs.st = "Error" THEN Ok(j, acc)
        ELSE rs
        : rs \in {Sep[j]}} : TRUE)

separated_list0(Sep, P, i) ==
    (CHOOSE out_first \in {
        IF first.st = "Error" THEN Ok(i, <<>>)
        ELSE IF first.st /= "Ok" THEN first
        ELSE separated_list_loop(Sep, P, first.pos, <<first.val>>)
        : first \in {P[i]}} : TRUE)

\* multi::separated_list1
separated_list1(Sep, P, i) ==
    (CHOOSE out_first \in {
        IF first.st /= "Ok" THEN first
        ELSE separated_list_loop(Sep, P, first.pos, <<first.val>>)
        : first \in {P[i]}} : TRUE)

\* abnf_core::streaming terminals
SP[s \in STRING, i \in Nat] == tag[" ", s, i]

CRLF[s \in STRING, i \in Nat] == tag["\r\n", s, i]

DQUOTE[s \in STRING, i \in Nat] == tag["\"", s, i]

-----------------------------------------------------------------------------
(* parse/mod.rs: base64, number, String *)

is_base64_char == is_ALPHA \cup is_DIGIT \cup {"+", "/"}

\* base64 = *base64-char [ "==" / "=" ]
base64[s \in STRING, i \in Nat] ==
    (CHOOSE out_r1 \in {(CHOOSE out_r2 \in {
        recognize(r2, s, i)
        : r2 \in {(IF r1.st = "Ok" THEN opt(alt(<<tag["==", s, r1.pos], tag["=", s, r1.pos]>>), r1.pos) ELSE r1)}} : TRUE)
        : r1 \in {take_while[is_base64_char, s, i]}} : TRUE)

\* A u32 is its decimal digits, most significant first, without leading zeros.
U32Max == <<4, 2, 9, 4, 9, 6, 7, 2, 9, 5>>

digits_of[s \in STRING] == IF Len(s) = 0 THEN <<>> ELSE <<Ord[At(s, 1)] - 48>> \o digits_of[Rest(s, 2)]

RECURSIVE strip_zeros(_)
strip_zeros(d) == IF Len(d) > 1 /\ d[1] = 0 THEN strip_zeros(Tail(d)) ELSE d

RECURSIVE digits_le(_, _)
digits_le(a, b) ==
    IF Len(a) = 0 THEN TRUE
    ELSE IF a[1] /= b[1] THEN a[1] < b[1]
    ELSE digits_le(Tail(a), Tail(b))

fits_u32(d) == Len(d) < Len(U32Max) \/ (Len(d) = Len(U32Max) /\ digits_le(d, U32Max))

\* str::parse::<u32> on a string of digits: Ok(value) or Err.
parse_u32(s) ==
    (CHOOSE out_d \in {
        IF fits_u32(d) THEN <<d>> ELSE <<>>
        : d \in {strip_zeros(digits_of[s])}} : TRUE)

\* A variant of the conversion that unwraps the result of str::parse::<u32>.
map_unwrap_parse_u32(r) ==
    (CHOOSE out_a \in {
        IF a.st /= "Ok" THEN a
        ELSE (CHOOSE out_n \in {IF n = <<>> THEN Panic ELSE Ok(a.pos, n[1]) : n \in {parse_u32(a.val)}} : TRUE)
        : a \in {r}} : TRUE)

\* combinator::map_res over str::parse::<u32>: a failed conversion is Err::Error.
map_res_parse_u32(r) ==
    (CHOOSE out_a \in {
        IF a.st /= "Ok" THEN a
        ELSE (CHOOSE out_n \in {IF n = <<>> THEN Error ELSE Ok(a.pos, n[1]) : n \in {parse_u32(a.val)}} : TRUE)
        : a \in {r}} : TRUE)

\* number = 1*DIGIT, mapped through str::parse::<u32>
number[s \in STRING, i \in Nat] == map_res_parse_u32(take_while1[is_DIGIT, s, i])

\* Display of a u32
RECURSIVE format_u32(_)
format_u32(d) == IF Len(d) = 0 THEN "" ELSE Chr(48 + d[1]) \o format_u32(Tail(d))

is_atext ==
    is_ALPHA \cup is_DIGIT
        \cup {"!", "#", "$", "%", "&", "'", "*", "+", "-", "/", "=", "?", "^", "_", "{", "|", "}", "~"}

\* Atom = 1*atext
Atom[s \in STRING, i \in Nat] == take_while1[is_atext, s, i]

\* A variant of qtextSMTP that admits CR and LF.
is_qtextSMTP_with_CRLF ==
    {c \in Bytes : Ord[c] \in {10, 13} \/ Ord[c] \in 32..33 \/ Ord[c] \in 35..91 \/ Ord[c] \in 93..126}

\* qtextSMTP = %d32-33 / %d35-91 / %d93-126
is_qtextSMTP == {c \in Bytes : Ord[c] \in 32..33 \/ Ord[c] \in 35..91 \/ Ord[c] \in 93..126}

\* quoted-pairSMTP, restricted to "\\" and "\""
quoted_pairSMTP[s \in STRING, i \in Nat] ==
    (CHOOSE out_r1 \in {
        recognize((IF r1.st = "Ok" THEN take_while_m_n[1, 1, {"\\", "\""}, s, r1.pos] ELSE r1), s, i)
        : r1 \in {tag["\\", s, i]}} : TRUE)

\* QcontentSMTP = qtextSMTP / quoted-pairSMTP
QcontentSMTP[s \in STRING, i \in Nat] ==
    recognize(alt(<<take_while_m_n[1, 1, is_qtextSMTP, s, i], quoted_pairSMTP[s, i]>>), s, i)

\* str::replace(from, to): leftmost non-overlapping matches.
replace[s \in STRING, from \in STRING, to \in STRING] ==
    IF Len(s) < Len(from) THEN s
    ELSE IF SubSeq(s, 1, Len(from)) = from
         THEN to \o replace[Rest(s, Len(from) + 1), from, to]
         ELSE At(s, 1) \o replace[Rest(s, 2), from, to]

\* A variant of unescape_quoted that leaves the escapes in place.
unescape_quoted_verbatim(escaped) == escaped

\* A variant of escape_quoted that escapes the quotes only.
escape_quoted_quotes_only(unescaped) == replace[unescaped, "\"", "\\\""]

\* utils.rs
escape_quoted(unescaped) == replace[replace[unescaped, "\\", "\\\\"], "\"", "\\\""]

unescape_quoted(escaped) == replace[replace[escaped, "\\\\", "\\"], "\\\"", "\""]

\* Quoted-string = DQUOTE *QcontentSMTP DQUOTE, unescaped
Quoted_string[s \in STRING, i \in Nat] ==
    (CHOOSE out_r1 \in {(CHOOSE out_r2 \in {(CHOOSE out_r3 \in {
        IF r3.st = "Ok" THEN Ok(r3.pos, unescape_quoted(r2.val)) ELSE r3
        : r3 \in {(IF r2.st = "Ok" THEN DQUOTE[s, r2.pos] ELSE r2)}} : TRUE)
        : r2 \in {(IF r1.st = "Ok" THEN recognize(many0([j \in Offsets(s) |-> QcontentSMTP[s, j]], r1.pos), s, r1.pos) ELSE r1)}} : TRUE)
        : r1 \in {DQUOTE[s, i]}} : TRUE)

\* String = Atom / Quoted-string
String[s \in STRING, i \in Nat] ==
    (CHOOSE out_a \in {(CHOOSE out_q \in {
        alt(<<IF a.st = "Ok" THEN Ok(a.pos, [tag |-> "Atom", s |-> a.val]) ELSE a,
              IF q.st = "Ok" THEN Ok(q.pos, [tag |-> "Quoted", s |-> q.val]) ELSE q>>)
        : q \in {Quoted_string[s, i]}} : TRUE)
        : a \in {Atom[s, i]}} : TRUE)

is_Let_dig == is_ALPHA \cup is_DIGIT

\* Ldh-str = *( ALPHA / DIGIT / "-" ) Let-dig, as written: *( ALPHA / DIGIT / "-" Let-dig )
Ldh_str_item[s \in STRING, j \in Nat] ==
    (CHOOSE out_h \in {
        alt(<<take_while_m_n[1, 1, is_ALPHA, s, j],
              take_while_m_n[1, 1, is_DIGIT, s, j],
              recognize((IF h.st = "Ok" THEN take_while_m_n[1, 1, is_Let_dig, s, h.pos] ELSE h), s, j)>>)
        : h \in {tag["-", s, j]}} : TRUE)

Ldh_str[s \in STRING, i \in Nat] == recognize(many0([j \in Offsets(s) |-> Ldh_str_item[s, j]], i), s, i)

\* sub-domain = Let-dig [Ldh-str]
sub_domain[s \in STRING, i \in Nat] ==
    (CHOOSE out_r1 \in {
        recognize((IF r1.st = "Ok" THEN opt(Ldh_str[s, r1.pos], r1.pos) ELSE r1), s, i)
        : r1 \in {take_while_m_n[1, 1, is_Let_dig, s, i]}} : TRUE)

\* Domain = sub-domain *("." sub-domain)   (parse/mod.rs, a separated list)
parse_Domain[s \in STRING, i \in Nat] ==
    recognize(separated_list1([j \in Offsets(s) |-> tag[".", s, j]],
                              [j \in Offsets(s) |-> sub_domain[s, j]], i), s, i)

-----------------------------------------------------------------------------
(* parse/address.rs *)

\* Snum = 1*3DIGIT
snum[s \in STRING, i \in Nat] == take_while_m_n[1, 3, is_DIGIT, s, i]

dot_snum[s \in STRING, j \in Nat] ==
    (CHOOSE out_d \in {
        (IF d.st = "Ok" THEN snum[s, d.pos] ELSE d)
        : d \in {tag[".", s, j]}} : TRUE)

\* IPv4-address-literal = Snum 3("."  Snum)
ipv4_address_literal[s \in STRING, i \in Nat] ==
    (CHOOSE out_r1 \in {
        recognize((IF r1.st = "Ok" THEN count([j \in Offsets(s) |-> dot_snum[s, j]], 3, r1.pos) ELSE r1), s, i)
        : r1 \in {snum[s, i]}} : TRUE)

\* IPv6-hex = 1*4HEXDIG
ipv6_hex[s \in STRING, i \in Nat] == take_while_m_n[1, 4, is_hex_digit, s, i]

colon_hex[s \in STRING, j \in Nat] ==
    (CHOOSE out_c \in {
        (IF c.st = "Ok" THEN ipv6_hex[s, c.pos] ELSE c)
        : c \in {tag[":", s, j]}} : TRUE)

\* IPv6-full = IPv6-hex 7(":" IPv6-hex)
ipv6_full[s \in STRING, i \in Nat] ==
    (CHOOSE out_r1 \in {
        recognize((IF r1.st = "Ok" THEN count([j \in Offsets(s) |-> colon_hex[s, j]], 7, r1.pos) ELSE r1), s, i)
        : r1 \in {ipv6_hex[s, i]}} : TRUE)

\* IPv6-hex *n(":" IPv6-hex)
hex_groups[n \in Nat, s \in STRING, i \in Nat] ==
    (CHOOSE out_r1 \in {
        (IF r1.st = "Ok" THEN many_m_n(0, n, [j \in Offsets(s) |-> colon_hex[s, j]], r1.pos) ELSE r1)
        : r1 \in {ipv6_hex[s, i]}} : TRUE)

\* IPv6-comp = [IPv6-hex *5(":" IPv6-hex)] "::" [IPv6-hex *5(":" IPv6-hex)]
ipv6_comp[s \in STRING, i \in Nat] ==
    (CHOOSE out_r1 \in {(CHOOSE out_r2 \in {(CHOOSE out_r3 \in {
        recognize(r3, s, i)
        : r3 \in {(IF r2.st = "Ok" THEN opt(hex_groups[5, s, r2.pos], r2.pos) ELSE r2)}} : TRUE)
        : r2 \in {(IF r1.st = "Ok" THEN tag["::", s, r1.pos] ELSE r1)}} : TRUE)
        : r1 \in {opt(hex_groups[5, s, i], i)}} : TRUE)

\* IPv6v4-full = IPv6-hex 5(":" IPv6-hex) ":" IPv4-address-literal
ipv6v4_full[s \in STRING, i \in Nat] ==
    (CHOOSE out_r1 \in {(CHOOSE out_r2 \in {(CHOOSE out_r3 \in {(CHOOSE out_r4 \in {
        recognize(r4, s, i)
        : r4 \in {(IF r3.st = "Ok" THEN ipv4_address_literal[s, r3.pos] ELSE r3)}} : TRUE)
        : r3 \in {(IF r2.st = "Ok" THEN tag[":", s, r2.pos] ELSE r2)}} : TRUE)
        : r2 \in {(IF r1.st = "Ok" THEN count([j \in Offsets(s) |-> colon_hex[s, j]], 5, r1.pos) ELSE r1)}} : TRUE)
        : r1 \in {ipv6_hex[s, i]}} : TRUE)

hex_groups_colon[s \in STRING, i \in Nat] ==
    (CHOOSE out_r1 \in {
        (IF r1.st = "Ok" THEN tag[":", s, r1.pos] ELSE r1)
        : r1 \in {hex_groups[3, s, i]}} : TRUE)

\* IPv6v4-comp = [IPv6-hex *3(":" IPv6-hex)] "::" [IPv6-hex *3(":" IPv6-hex) ":"]
\*               IPv4-address-literal
ipv6v4_comp[s \in STRING, i \in Nat] ==
    (CHOOSE out_r1 \in {(CHOOSE out_r2 \in {(CHOOSE out_r3 \in {(CHOOSE out_r4 \in {
        recognize(r4, s, i)
        : r4 \in {(IF r3.st = "Ok" THEN ipv4_address_literal[s, r3.pos] ELSE r3)}} : TRUE)
        : r3 \in {(IF r2.st = "Ok" THEN opt(hex_groups_colon[s, r2.pos], r2.pos) ELSE r2)}} : TRUE)
        : r2 \in {(IF r1.st = "Ok" THEN tag["::", s, r1.pos] ELSE r1)}} : TRUE)
        : r1 \in {opt(hex_groups[3, s, i], i)}} : TRUE)

\* IPv6-addr = IPv6-full / IPv6-comp / IPv6v4-full / IPv6v4-comp
ipv6_addr[s \in STRING, i \in Nat] ==
    recognize(alt(<<ipv6_full[s, i], ipv6_comp[s, i], ipv6v4_full[s, i], ipv6v4_comp[s, i]>>),
              s, i)

\* IPv6-address-literal = "IPv6:" IPv6-addr
ipv6_address_literal[s \in STRING, i \in Nat] ==
    (CHOOSE out_r1 \in {
        recognize((IF r1.st = "Ok" THEN ipv6_addr[s, r1.pos] ELSE r1), s, i)
        : r1 \in {tag_no_case["IPv6:", s, i]}} : TRUE)

\* dcontent = %d33-90 / %d94-126
is_dcontent == {c \in Bytes : Ord[c] \in 33..90 \/ Ord[c] \in 94..126}

\* Standardized-tag = Ldh-str
standardized_tag[s \in STRING, i \in Nat] == Ldh_str[s, i]

\* General-address-literal = Standardized-tag ":" 1*dcontent
general_address_literal[s \in STRING, i \in Nat] ==
    (CHOOSE out_r1 \in {(CHOOSE out_r2 \in {(CHOOSE out_r3 \in {
        recognize(r3, s, i)
        : r3 \in {(IF r2.st = "Ok" THEN take_while1[is_dcontent, s, r2.pos] ELSE r2)}} : TRUE)
        : r2 \in {(IF r1.st = "Ok" THEN tag[":", s, r1.pos] ELSE r1)}} : TRUE)
        : r1 \in {standardized_tag[s, i]}} : TRUE)

\* address-literal = "[" ( IPv4 / IPv6 / General ) "]"; the value is the bracket-free text
addr_address_literal[s \in STRING, i \in Nat] ==
    (CHOOSE out_r1 \in {(CHOOSE out_r2 \in {(CHOOSE out_r3 \in {
        IF r3.st = "Ok" THEN Ok(r3.pos, r2.val) ELSE r3
        : r3 \in {(IF r2.st = "Ok" THEN tag["]", s, r2.pos] ELSE r2)}} : TRUE)
        : r2 \in {(IF r1.st = "Ok" THEN alt(<<ipv4_address_literal[s, r1.pos],
                                 ipv6_address_literal[s, r1.pos],
                                 general_address_literal[s, r1.pos]>>) ELSE r1)}} : TRUE)
        : r1 \in {tag["[", s, i]}} : TRUE)

-----------------------------------------------------------------------------
(* parse/command.rs: command argument syntax *)

dot_sub_domain[s \in STRING, j \in Nat] ==
    (CHOOSE out_d \in {
        (IF d.st = "Ok" THEN sub_domain[s, d.pos] ELSE d)
        : d \in {tag[".", s, j]}} : TRUE)

\* Domain = sub-domain *("." sub-domain)
Domain[s \in STRING, i \in Nat] ==
    (CHOOSE out_r1 \in {
        recognize((IF r1.st = "Ok" THEN many0([j \in Offsets(s) |-> dot_sub_domain[s, j]], r1.pos) ELSE r1), s, i)
        : r1 \in {sub_domain[s, i]}} : TRUE)

\* address-literal, recognized with its brackets
address_literal[s \in STRING, i \in Nat] == recognize(addr_address_literal[s, i], s, i)

\* At-domain = "@" Domain
At_domain[s \in STRING, i \in Nat] ==
    (CHOOSE out_r1 \in {
        recognize((IF r1.st = "Ok" THEN Domain[s, r1.pos] ELSE r1), s, i)
        : r1 \in {tag["@", s, i]}} : TRUE)

comma_At_domain[s \in STRING, j \in Nat] ==
    (CHOOSE out_c \in {
        (IF c.st = "Ok" THEN At_domain[s, c.pos] ELSE c)
        : c \in {tag[",", s, j]}} : TRUE)

\* A-d-l = At-domain *( "," At-domain )
A_d_l[s \in STRING, i \in Nat] ==
    (CHOOSE out_r1 \in {
        recognize((IF r1.st = "Ok" THEN many0([j \in Offsets(s) |-> comma_At_domain[s, j]], r1.pos) ELSE r1), s, i)
        : r1 \in {At_domain[s, i]}} : TRUE)

dot_Atom[s \in STRING, j \in Nat] ==
    (CHOOSE out_d \in {
        (IF d.st = "Ok" THEN Atom[s, d.pos] ELSE d)
        : d \in {tag[".", s, j]}} : TRUE)

\* Dot-string = Atom *("."  Atom)
Dot_string[s \in STRING, i \in Nat] ==
    (CHOOSE out_r1 \in {
        recognize((IF r1.st = "Ok" THEN many0([j \in Offsets(s) |-> dot_Atom[s, j]], r1.pos) ELSE r1), s, i)
        : r1 \in {Atom[s, i]}} : TRUE)

\* quoted-pairSMTP = %d92 %d32-126   (command.rs has its own productions of the
\* quoted string; they take a backslash before any byte 32..126)
is_ascii_bs_or_sp == {c \in Bytes : Ord[c] \in 32..126}

command_quoted_pairSMTP[s \in STRING, i \in Nat] ==
    (CHOOSE out_r1 \in {
        recognize((IF r1.st = "Ok" THEN take_while_m_n[1, 1, is_ascii_bs_or_sp, s, r1.pos] ELSE r1), s, i)
        : r1 \in {tag["\\", s, i]}} : TRUE)

command_QcontentSMTP[s \in STRING, i \in Nat] ==
    recognize(alt(<<take_while_m_n[1, 1, is_qtextSMTP, s, i], command_quoted_pairSMTP[s, i]>>), s, i)

\* Quoted-string = DQUOTE *QcontentSMTP DQUOTE, recognized
command_Quoted_string[s \in STRING, i \in Nat] ==
    (CHOOSE out_r1 \in {(CHOOSE out_r2 \in {(CHOOSE out_r3 \in {
        recognize(r3, s, i)
        : r3 \in {(IF r2.st = "Ok" THEN DQUOTE[s, r2.pos] ELSE r2)}} : TRUE)
        : r2 \in {(IF r1.st = "Ok" THEN many0([j \in Offsets(s) |-> command_QcontentSMTP[s, j]], r1.pos) ELSE r1)}} : TRUE)
        : r1 \in {DQUOTE[s, i]}} : TRUE)

\* String = Atom / Quoted-string, recognized
command_String[s \in STRING, i \in Nat] ==
    recognize(alt(<<Atom[s, i], command_Quoted_string[s, i]>>), s, i)

\* Local-part = Dot-string / Quoted-string
Local_part[s \in STRING, i \in Nat] == recognize(alt(<<Dot_string[s, i], command_Quoted_string[s, i]>>), s, i)

\* Mailbox = Local-part "@" ( Domain / address-literal )
Mailbox[s \in STRING, i \in Nat] ==
    (CHOOSE out_r1 \in {(CHOOSE out_r2 \in {(CHOOSE out_r3 \in {
        recognize(r3, s, i)
        : r3 \in {(IF r2.st = "Ok" THEN alt(<<Domain[s, r2.pos], address_literal[s, r2.pos]>>) ELSE r2)}} : TRUE)
        : r2 \in {(IF r1.st = "Ok" THEN tag["@", s, r1.pos] ELSE r1)}} : TRUE)
        : r1 \in {Local_part[s, i]}} : TRUE)

A_d_l_colon[s \in STRING, i \in Nat] ==
    (CHOOSE out_r1 \in {
        (IF r1.st = "Ok" THEN tag[":", s, r1.pos] ELSE r1)
        : r1 \in {A_d_l[s, i]}} : TRUE)

\* Path = "<" [ A-d-l ":" ] Mailbox ">"
Path[s \in STRING, i \in Nat] ==
    (CHOOSE out_r1 \in {(CHOOSE out_r2 \in {(CHOOSE out_r3 \in {(CHOOSE out_r4 \in {
        recognize(r4, s, i)
        : r4 \in {(IF r3.st = "Ok" THEN tag[">", s, r3.pos] ELSE r3)}} : TRUE)
        : r3 \in {(IF r2.st = "Ok" THEN Mailbox[s, r2.pos] ELSE r2)}} : TRUE)
        : r2 \in {(IF r1.st = "Ok" THEN opt(A_d_l_colon[s, r1.pos], r1.pos) ELSE r1)}} : TRUE)
        : r1 \in {tag["<", s, i]}} : TRUE)

\* Reverse-path = Path / "<>"
Reverse_path[s \in STRING, i \in Nat] == recognize(alt(<<Path[s, i], tag["<>", s, i]>>), s, i)

\* Forward-path = Path
Forward_path[s \in STRING, i \in Nat] == recognize(Path[s, i], s, i)

\* esmtp-keyword = (ALPHA / DIGIT) *(ALPHA / DIGIT / "-")
esmtp_keyword[s \in STRING, i \in Nat] ==
    (CHOOSE out_r1 \in {
        recognize((IF r1.st = "Ok" THEN take_while[is_ALPHA \cup is_DIGIT \cup {"-"}, s, r1.pos] ELSE r1), s, i)
        : r1 \in {take_while_m_n[1, 1, is_ALPHA \cup is_DIGIT, s, i]}} : TRUE)

\* esmtp-value = 1*(%d33-60 / %d62-126)
is_value_character == {c \in Bytes : Ord[c] \in 33..60 \/ Ord[c] \in 62..126}

esmtp_value[s \in STRING, i \in Nat] == take_while1[is_value_character, s, i]

eq_esmtp_value[s \in STRING, i \in Nat] ==
    (CHOOSE out_e \in {
        (IF e.st = "Ok" THEN esmtp_value[s, e.pos] ELSE e)
        : e \in {tag["=", s, i]}} : TRUE)

\* esmtp-param = esmtp-keyword ["=" esmtp-value]
esmtp_param[s \in STRING, i \in Nat] ==
    (CHOOSE out_r1 \in {
        recognize((IF r1.st = "Ok" THEN opt(eq_esmtp_value[s, r1.pos], r1.pos) ELSE r1), s, i)
        : r1 \in {esmtp_keyword[s, i]}} : TRUE)

SP_esmtp_param[s \in STRING, j \in Nat] ==
    (CHOOSE out_sp \in {
        (IF sp.st = "Ok" THEN esmtp_param[s, sp.pos] ELSE sp)
        : sp \in {SP[s, j]}} : TRUE)

\* Mail-parameters = esmtp-param *(SP esmtp-param)
Mail_parameters[s \in STRING, i \in Nat] ==
    (CHOOSE out_r1 \in {
        recognize((IF r1.st = "Ok" THEN many0([j \in Offsets(s) |-> SP_esmtp_param[s, j]], r1.pos) ELSE r1), s, i)
        : r1 \in {esmtp_param[s, i]}} : TRUE)

\* Rcpt-parameters = esmtp-param *(SP esmtp-param)
Rcpt_parameters[s \in STRING, i \in Nat] ==
    (CHOOSE out_r1 \in {
        recognize((IF r1.st = "Ok" THEN many0([j \in Offsets(s) |-> SP_esmtp_param[s, j]], r1.pos) ELSE r1), s, i)
        : r1 \in {esmtp_param[s, i]}} : TRUE)

-----------------------------------------------------------------------------
(* types.rs: the values of Command, and their construction from the matched *)
(* bytes of a command line.                                                 *)

None == <<>>

Some(x) == <<x>>

\* The offset in s of the first occurrence of the byte c; 0 if there is none.
find_from[s \in STRING, c \in STRING, i \in Nat] ==
    IF i > Len(s) THEN 0 ELSE IF At(s, i) = c THEN i ELSE find_from[s, c, i + 1]

find(s, c) == find_from[s, c, 1]

\* DomainOrAddress: a Domain, or the bracket-free text of an address literal.
into_DomainOrAddress(data) ==
    IF At(data, 1) = "["
    THEN [tag |-> "Address", s |-> SubSeq(data, 2, Len(data) - 1)]
    ELSE [tag |-> "Domain", s |-> data]

\* Parameter: SIZE (any case) with a value that is a u32 is Size, the rest is
\* Other. The parsers keep the matched bytes and refuse no parameter, so a SIZE
\* whose digits do not fit a u32 stays Other as well.
into_Parameter(p) ==
    LET e == find(p, "=")
        keyword == IF e = 0 THEN p ELSE SubSeq(p, 1, e - 1)
        val == IF e = 0 THEN "" ELSE SubSeq(p, e + 1, Len(p))
        numeric == e /= 0 /\ \A k \in 1..Len(val) : At(val, k) \in is_DIGIT
    IN  IF to_lowercase[keyword] = "size" /\ numeric /\ parse_u32(val) /= <<>>
        THEN [tag |-> "Size", size |-> parse_u32(val)[1]]
        ELSE [tag |-> "Other", keyword |-> keyword,
              value |-> IF e = 0 THEN None ELSE Some(val)]

\* The parameters of a line, in order.
into_parameters[raw \in STRING] ==
    (CHOOSE out_sp \in {
        IF sp = 0 THEN <<into_Parameter(raw)>>
        ELSE <<into_Parameter(SubSeq(raw, 1, sp - 1))>> \o into_parameters[Rest(raw, sp + 1)]
        : sp \in {find(raw, " ")}} : TRUE)

\* Option<raw parameters> to the parameter list.
into_parameter_list(maybe_params) ==
    IF maybe_params = None THEN <<>> ELSE into_parameters[maybe_params[1]]

\* AtomOrQuoted: a quoted string gives the unescaped text between the quotes,
\* anything else is an Atom.
into_AtomOrQuoted(data) ==
    IF At(data, 1) = "\""
    THEN [tag |-> "Quoted", s |-> unescape_quoted(SubSeq(data, 2, Len(data) - 1))]
    ELSE [tag |-> "Atom", s |-> data]

-----------------------------------------------------------------------------
(* parse/command.rs: the verb parsers *)

\* helo = "HELO" SP Domain CRLF   (address-literal accepted as well)
helo[s \in STRING, i \in Nat] ==
    (CHOOSE out_r1 \in {(CHOOSE out_r2 \in {(CHOOSE out_r3 \in {(CHOOSE out_r4 \in {
        IF r4.st /= "Ok" THEN r4
        ELSE Ok(r4.pos, [tag |-> "Helo", domain_or_address |-> into_DomainOrAddress(r3.val)])
        : r4 \in {(IF r3.st = "Ok" THEN CRLF[s, r3.pos] ELSE r3)}} : TRUE)
        : r3 \in {(IF r2.st = "Ok" THEN alt(<<Domain[s, r2.pos], address_literal[s, r2.pos]>>) ELSE r2)}} : TRUE)
        : r2 \in {(IF r1.st = "Ok" THEN SP[s, r1.pos] ELSE r1)}} : TRUE)
        : r1 \in {tag_no_case["HELO", s, i]}} : TRUE)

\* ehlo = "EHLO" SP ( Domain / address-literal ) CRLF
ehlo[s \in STRING, i \in Nat] ==
    (CHOOSE out_r1 \in {(CHOOSE out_r2 \in {(CHOOSE out_r3 \in {(CHOOSE out_r4 \in {
        IF r4.st /= "Ok" THEN r4
        ELSE Ok(r4.pos, [tag |-> "Ehlo", domain_or_address |-> into_DomainOrAddress(r3.val)])
        : r4 \in {(IF r3.st = "Ok" THEN CRLF[s, r3.pos] ELSE r3)}} : TRUE)
        : r3 \in {(IF r2.st = "Ok" THEN alt(<<Domain[s, r2.pos], address_literal[s, r2.pos]>>) ELSE r2)}} : TRUE)
        : r2 \in {(IF r1.st = "Ok" THEN SP[s, r1.pos] ELSE r1)}} : TRUE)
        : r1 \in {tag_no_case["EHLO", s, i]}} : TRUE)

SP_Mail_parameters[s \in STRING, i \in Nat] ==
    (CHOOSE out_sp \in {
        (IF sp.st = "Ok" THEN Mail_parameters[s, sp.pos] ELSE sp)
        : sp \in {SP[s, i]}} : TRUE)

\* mail = "MAIL FROM:" Reverse-path [SP Mail-parameters] CRLF
\* The path is handed on as it was matched (data.into()), "<" and ">" included.
mail[s \in STRING, i \in Nat] ==
    (CHOOSE out_r1 \in {(CHOOSE out_r2 \in {(CHOOSE out_r3 \in {(CHOOSE out_r4 \in {(CHOOSE out_r5 \in {
        IF r5.st /= "Ok" THEN r5
        ELSE Ok(r5.pos, [tag |-> "Mail", reverse_path |-> r3.val,
                         parameters |-> into_parameter_list(r4.val)])
        : r5 \in {(IF r4.st = "Ok" THEN CRLF[s, r4.pos] ELSE r4)}} : TRUE)
        : r4 \in {(IF r3.st = "Ok" THEN opt(SP_Mail_parameters[s, r3.pos], r3.pos) ELSE r3)}} : TRUE)
        : r3 \in {(IF r2.st = "Ok" THEN Reverse_path[s, r2.pos] ELSE r2)}} : TRUE)
        : r2 \in {(IF r1.st = "Ok" THEN opt(SP[s, r1.pos], r1.pos) ELSE r1)}} : TRUE)
        : r1 \in {tag_no_case["MAIL FROM:", s, i]}} : TRUE)

Postmaster_at_Domain[s \in STRING, i \in Nat] ==
    (CHOOSE out_r1 \in {(CHOOSE out_r2 \in {(CHOOSE out_r3 \in {
        recognize(r3, s, i)
        : r3 \in {(IF r2.st = "Ok" THEN tag[">", s, r2.pos] ELSE r2)}} : TRUE)
        : r2 \in {(IF r1.st = "Ok" THEN Domain[s, r1.pos] ELSE r1)}} : TRUE)
        : r1 \in {tag_no_case["<Postmaster@", s, i]}} : TRUE)

SP_Rcpt_parameters[s \in STRING, i \in Nat] ==
    (CHOOSE out_sp \in {
        (IF sp.st = "Ok" THEN Rcpt_parameters[s, sp.pos] ELSE sp)
        : sp \in {SP[s, i]}} : TRUE)

\* rcpt = "RCPT TO:" ( "<Postmaster@" Domain ">" / "<Postmaster>" / Forward-path )
\*        [SP Rcpt-parameters] CRLF
rcpt[s \in STRING, i \in Nat] ==
    (CHOOSE out_r1 \in {(CHOOSE out_r2 \in {(CHOOSE out_r3 \in {(CHOOSE out_r4 \in {(CHOOSE out_r5 \in {
        IF r5.st /= "Ok" THEN r5
        ELSE Ok(r5.pos, [tag |-> "Rcpt", forward_path |-> r3.val,
                         parameters |-> into_parameter_list(r4.val)])
        : r5 \in {(IF r4.st = "Ok" THEN CRLF[s, r4.pos] ELSE r4)}} : TRUE)
        : r4 \in {(IF r3.st = "Ok" THEN opt(SP_Rcpt_parameters[s, r3.pos], r3.pos) ELSE r3)}} : TRUE)
        : r3 \in {(IF r2.st = "Ok" THEN alt(<<Postmaster_at_Domain[s, r2.pos],
                                 tag_no_case["<Postmaster>", s, r2.pos],
                                 Forward_path[s, r2.pos]>>) ELSE r2)}} : TRUE)
        : r2 \in {(IF r1.st = "Ok" THEN opt(SP[s, r1.pos], r1.pos) ELSE r1)}} : TRUE)
        : r1 \in {tag_no_case["RCPT TO:", s, i]}} : TRUE)

\* data = "DATA" CRLF
data[s \in STRING, i \in Nat] ==
    (CHOOSE out_r1 \in {
        value([tag |-> "Data"], (IF r1.st = "Ok" THEN CRLF[s, r1.pos] ELSE r1))
        : r1 \in {tag_no_case["DATA", s, i]}} : TRUE)

\* rset = "RSET" CRLF
rset[s \in STRING, i \in Nat] ==
    (CHOOSE out_r1 \in {
        value([tag |-> "Rset"], (IF r1.st = "Ok" THEN CRLF[s, r1.pos] ELSE r1))
        : r1 \in {tag_no_case["RSET", s, i]}} : TRUE)

\* vrfy = "VRFY" SP String CRLF
vrfy[s \in STRING, i \in Nat] ==
    (CHOOSE out_r1 \in {(CHOOSE out_r2 \in {(CHOOSE out_r3 \in {(CHOOSE out_r4 \in {
        IF r4.st /= "Ok" THEN r4
        ELSE Ok(r4.pos, [tag |-> "Vrfy", user_or_mailbox |-> into_AtomOrQuoted(r3.val)])
        : r4 \in {(IF r3.st = "Ok" THEN CRLF[s, r3.pos] ELSE r3)}} : TRUE)
        : r3 \in {(IF r2.st = "Ok" THEN command_String[s, r2.pos] ELSE r2)}} : TRUE)
        : r2 \in {(IF r1.st = "Ok" THEN SP[s, r1.pos] ELSE r1)}} : TRUE)
        : r1 \in {tag_no_case["VRFY", s, i]}} : TRUE)

\* expn = "EXPN" SP String CRLF
expn[s \in STRING, i \in Nat] ==
    (CHOOSE out_r1 \in {(CHOOSE out_r2 \in {(CHOOSE out_r3 \in {(CHOOSE out_r4 \in {
        IF r4.st /= "Ok" THEN r4
        ELSE Ok(r4.pos, [tag |-> "Expn", mailing_list |-> into_AtomOrQuoted(r3.val)])
        : r4 \in {(IF r3.st = "Ok" THEN CRLF[s, r3.pos] ELSE r3)}} : TRUE)
        : r3 \in {(IF r2.st = "Ok" THEN command_String[s, r2.pos] ELSE r2)}} : TRUE)
        : r2 \in {(IF r1.st = "Ok" THEN SP[s, r1.pos] ELSE r1)}} : TRUE)
        : r1 \in {tag_no_case["EXPN", s, i]}} : TRUE)

SP_String[s \in STRING, i \in Nat] ==
    (CHOOSE out_sp \in {
        (IF sp.st = "Ok" THEN command_String[s, sp.pos] ELSE sp)
        : sp \in {SP[s, i]}} : TRUE)

\* help = "HELP" [ SP String ] CRLF
help[s \in STRING, i \in Nat] ==
    (CHOOSE out_r1 \in {(CHOOSE out_r2 \in {(CHOOSE out_r3 \in {
        IF r3.st /= "Ok" THEN r3
        ELSE Ok(r3.pos, [tag |-> "Help", argument |->
                            IF r2.val = None THEN None ELSE Some(into_AtomOrQuoted(r2.val[1]))])
        : r3 \in {(IF r2.st = "Ok" THEN CRLF[s, r2.pos] ELSE r2)}} : TRUE)
        : r2 \in {(IF r1.st = "Ok" THEN opt(SP_String[s, r1.pos], r1.pos) ELSE r1)}} : TRUE)
        : r1 \in {tag_no_case["HELP", s, i]}} : TRUE)

\* noop = "NOOP" [ SP String ] CRLF
noop[s \in STRING, i \in Nat] ==
    (CHOOSE out_r1 \in {(CHOOSE out_r2 \in {(CHOOSE out_r3 \in {
        IF r3.st /= "Ok" THEN r3
        ELSE Ok(r3.pos, [tag |-> "Noop", argument |->
                            IF r2.val = None THEN None ELSE Some(into_AtomOrQuoted(r2.val[1]))])
        : r3 \in {(IF r2.st = "Ok" THEN CRLF[s, r2.pos] ELSE r2)}} : TRUE)
        : r2 \in {(IF r1.st = "Ok" THEN opt(SP_String[s, r1.pos], r1.pos) ELSE r1)}} : TRUE)
        : r1 \in {tag_no_case["NOOP", s, i]}} : TRUE)

\* quit = "QUIT" CRLF
quit[s \in STRING, i \in Nat] ==
    (CHOOSE out_r1 \in {
        value([tag |-> "Quit"], (IF r1.st = "Ok" THEN CRLF[s, r1.pos] ELSE r1))
        : r1 \in {tag_no_case["QUIT", s, i]}} : TRUE)

\* starttls = "STARTTLS" CRLF
starttls[s \in STRING, i \in Nat] ==
    (CHOOSE out_r1 \in {
        value([tag |-> "StartTLS"], (IF r1.st = "Ok" THEN CRLF[s, r1.pos] ELSE r1))
        : r1 \in {tag_no_case["STARTTLS", s, i]}} : TRUE)

SP_base64[s \in STRING, i \in Nat] ==
    (CHOOSE out_sp \in {
        (IF sp.st = "Ok" THEN base64[s, sp.pos] ELSE sp)
        : sp \in {SP[s, i]}} : TRUE)

\* auth_login_command = "AUTH LOGIN" [SP username] CRLF
auth_login[s \in STRING, i \in Nat] ==
    (CHOOSE out_r1 \in {(CHOOSE out_r2 \in {(CHOOSE out_r3 \in {(CHOOSE out_r4 \in {(CHOOSE out_r5 \in {
        IF r5.st /= "Ok" THEN r5
        ELSE Ok(r5.pos, [tag |-> "AuthLogin", initial |-> r4.val])
        : r5 \in {(IF r4.st = "Ok" THEN CRLF[s, r4.pos] ELSE r4)}} : TRUE)
        : r4 \in {(IF r3.st = "Ok" THEN opt(SP_base64[s, r3.pos], r3.pos) ELSE r3)}} : TRUE)
        : r3 \in {(IF r2.st = "Ok" THEN tag_no_case["LOGIN", s, r2.pos] ELSE r2)}} : TRUE)
        : r2 \in {(IF r1.st = "Ok" THEN SP[s, r1.pos] ELSE r1)}} : TRUE)
        : r1 \in {tag_no_case["AUTH", s, i]}} : TRUE)

\* auth_plain_command = "AUTH PLAIN" [SP base64] CRLF
auth_plain[s \in STRING, i \in Nat] ==
    (CHOOSE out_r1 \in {(CHOOSE out_r2 \in {(CHOOSE out_r3 \in {(CHOOSE out_r4 \in {(CHOOSE out_r5 \in {
        IF r5.st /= "Ok" THEN r5
        ELSE Ok(r5.pos, [tag |-> "AuthPlain", initial |-> r4.val])
        : r5 \in {(IF r4.st = "Ok" THEN CRLF[s, r4.pos] ELSE r4)}} : TRUE)
        : r4 \in {(IF r3.st = "Ok" THEN opt(SP_base64[s, r3.pos], r3.pos) ELSE r3)}} : TRUE)
        : r3 \in {(IF r2.st = "Ok" THEN tag_no_case["PLAIN", s, r2.pos] ELSE r2)}} : TRUE)
        : r2 \in {(IF r1.st = "Ok" THEN SP[s, r1.pos] ELSE r1)}} : TRUE)
        : r1 \in {tag_no_case["AUTH", s, i]}} : TRUE)

\* The ordered alternative over the verbs.
command[s \in STRING, i \in Nat] ==
    alt(<<helo[s, i], ehlo[s, i], mail[s, i], rcpt[s, i], data[s, i], rset[s, i], vrfy[s, i],
          expn[s, i], help[s, i], noop[s, i], quit[s, i], starttls[s, i], auth_login[s, i],
          auth_plain[s, i]>>)

-----------------------------------------------------------------------------
(* parse/response.rs *)

\* textstring = 1*(%d09 / %d32-126)
is_value == {c \in Bytes : Ord[c] = 9 \/ Ord[c] \in 32..126}

textstring[s \in STRING, i \in Nat] == take_while1[is_value, s, i]

SP_textstring[s \in STRING, i \in Nat] ==
    (CHOOSE out_sp \in {
        (IF sp.st = "Ok" THEN textstring[s, sp.pos] ELSE sp)
        : sp \in {SP[s, i]}} : TRUE)

\* Option<&str> to String, None being the empty string
unwrap_or_empty(maybe_text) == IF maybe_text = None THEN "" ELSE maybe_text[1]

\* "220-" [ textstring ] CRLF
Greeting_more[s \in STRING, j \in Nat] ==
    (CHOOSE out_r1 \in {(CHOOSE out_r2 \in {(CHOOSE out_r3 \in {
        IF r3.st = "Ok" THEN Ok(r3.pos, r2.val) ELSE r3
        : r3 \in {(IF r2.st = "Ok" THEN CRLF[s, r2.pos] ELSE r2)}} : TRUE)
        : r2 \in {(IF r1.st = "Ok" THEN opt(textstring[s, r1.pos], r1.pos) ELSE r1)}} : TRUE)
        : r1 \in {tag["220-", s, j]}} : TRUE)

\* A variant of the loop over more_text that skips the lines without text.
RECURSIVE push_lines_with_text_only(_)
push_lines_with_text_only(more_text) ==
    IF Len(more_text) = 0 THEN ""
    ELSE (IF more_text[1] = None THEN "" ELSE more_text[1][1] \o "\n")
             \o push_lines_with_text_only(Tail(more_text))

\* The text of the lines between the first and the last, each closed by "\n".
RECURSIVE push_lines(_)
push_lines(more_text) ==
    IF Len(more_text) = 0 THEN ""
    ELSE unwrap_or_empty(more_text[1]) \o "\n" \o push_lines(Tail(more_text))

\* "220 " (Domain / address-literal) [ SP textstring ] CRLF
Greeting_single[s \in STRING, i \in Nat] ==
    (CHOOSE out_r1 \in {(CHOOSE out_r2 \in {(CHOOSE out_r3 \in {(CHOOSE out_r4 \in {
        IF r4.st /= "Ok" THEN r4
        ELSE Ok(r4.pos, [domain |-> r2.val, text |-> unwrap_or_empty(r3.val)])
        : r4 \in {(IF r3.st = "Ok" THEN CRLF[s, r3.pos] ELSE r3)}} : TRUE)
        : r3 \in {(IF r2.st = "Ok" THEN opt(SP_textstring[s, r2.pos], r2.pos) ELSE r2)}} : TRUE)
        : r2 \in {(IF r1.st = "Ok" THEN alt(<<parse_Domain[s, r1.pos], addr_address_literal[s, r1.pos]>>) ELSE r1)}} : TRUE)
        : r1 \in {tag["220 ", s, i]}} : TRUE)

\* "220-" (Domain / address-literal) [ SP textstring ] CRLF
\* *( "220-" [ textstring ] CRLF ) "220" [ SP textstring ] CRLF
Greeting_multi[s \in STRING, i \in Nat] ==
    (CHOOSE out_r1 \in {(CHOOSE out_r2 \in {(CHOOSE out_r3 \in {(CHOOSE out_r4 \in {(CHOOSE out_r5 \in {(CHOOSE out_r6 \in {(CHOOSE out_r7 \in {(CHOOSE out_r8 \in {
        IF r8.st /= "Ok" THEN r8
        ELSE Ok(r8.pos,
                [domain |-> r2.val,
                 text |-> unwrap_or_empty(r3.val) \o "\n" \o push_lines(r5.val)
                              \o unwrap_or_empty(r7.val)])
        : r8 \in {(IF r7.st = "Ok" THEN CRLF[s, r7.pos] ELSE r7)}} : TRUE)
        : r7 \in {(IF r6.st = "Ok" THEN opt(SP_textstring[s, r6.pos], r6.pos) ELSE r6)}} : TRUE)
        : r6 \in {(IF r5.st = "Ok" THEN tag["220", s, r5.pos] ELSE r5)}} : TRUE)
        : r5 \in {(IF r4.st = "Ok" THEN many0([j \in Offsets(s) |-> Greeting_more[s, j]], r4.pos) ELSE r4)}} : TRUE)
        : r4 \in {(IF r3.st = "Ok" THEN CRLF[s, r3.pos] ELSE r3)}} : TRUE)
        : r3 \in {(IF r2.st = "Ok" THEN opt(SP_textstring[s, r2.pos], r2.pos) ELSE r2)}} : TRUE)
        : r2 \in {(IF r1.st = "Ok" THEN alt(<<parse_Domain[s, r1.pos], addr_address_literal[s, r1.pos]>>) ELSE r1)}} : TRUE)
        : r1 \in {tag["220-", s, i]}} : TRUE)

Greeting[s \in STRING, i \in Nat] == alt(<<Greeting_single[s, i], Greeting_multi[s, i]>>)

\* ehlo-greet = 1*(%d0-9 / %d11-12 / %d14-127)
is_valid_character == {c \in Bytes : Ord[c] \in 0..9 \/ Ord[c] \in 11..12 \/ Ord[c] \in 14..127}

ehlo_greet[s \in STRING, i \in Nat] == take_while1[is_valid_character, s, i]

\* ehlo-keyword = (ALPHA / DIGIT) *(ALPHA / DIGIT / "-")
ehlo_keyword[s \in STRING, i \in Nat] ==
    (CHOOSE out_r1 \in {
        recognize((IF r1.st = "Ok" THEN take_while[is_ALPHA \cup is_DIGIT \cup {"-"}, s, r1.pos] ELSE r1), s, i)
        : r1 \in {take_while_m_n[1, 1, is_ALPHA \cup is_DIGIT, s, i]}} : TRUE)

\* ehlo-param = 1*(%d33-126)
is_param_character == {c \in Bytes : Ord[c] \in 33..126}

ehlo_param[s \in STRING, i \in Nat] == take_while1[is_param_character, s, i]

AuthMechanismNames ==
    << <<"Login", "LOGIN">>, <<"Plain", "PLAIN">>, <<"CramMD5", "CRAM-MD5">>,
       <<"CramSHA1", "CRAM-SHA1">>, <<"DigestMD5", "DIGEST-MD5">>,
       <<"ScramMD5", "SCRAM-MD5">>, <<"GSSAPI", "GSSAPI">>, <<"NTLM", "NTLM">> >>

\* map(ehlo_param, |param| AuthMechanism::Other(param.to_string()))
auth_mechanism_other[s \in STRING, i \in Nat] ==
    (CHOOSE out_r \in {IF r.st = "Ok" THEN Ok(r.pos, [tag |-> "Other", s |-> r.val]) ELSE r
         : r \in {ehlo_param[s, i]}} : TRUE)

\* The ordered alternative over the mechanism names, then any ehlo-param.
auth_mechanism[s \in STRING, i \in Nat] ==
    alt([k \in 1..(Len(AuthMechanismNames) + 1) |->
            IF k > Len(AuthMechanismNames) THEN auth_mechanism_other[s, i]
            ELSE value([tag |-> AuthMechanismNames[k][1]],
                       tag_no_case[AuthMechanismNames[k][2], s, i])])

\* The keyword branches of ehlo-line in their order: the variant and its literal.
CapabilityKeywords ==
    << <<"EXPN", "EXPN">>, <<"Help", "HELP">>, <<"EightBitMIME", "8BITMIME">>,
       <<"Size", "SIZE ">>, <<"Chunking", "CHUNKING">>, <<"BinaryMIME", "BINARYMIME">>,
       <<"Checkpoint", "CHECKPOINT">>, <<"DeliverBy", "DELIVERBY">>,
       <<"Pipelining", "PIPELINING">>, <<"DSN", "DSN">>, <<"ETRN", "ETRN">>,
       <<"EnhancedStatusCodes", "ENHANCEDSTATUSCODES">>, <<"StartTLS", "STARTTLS">>,
       <<"MTRK", "MTRK">>, <<"ATRN", "ATRN">>, <<"Auth", "AUTH">>, <<"BURL", "BURL">>,
       <<"SMTPUTF8", "SMTPUTF8">>, <<"RRVS", "RRVS">>, <<"RequireTLS", "REQUIRETLS">> >>

\* map(preceded(tag_no_case("SIZE "), number), Capability::Size)
ehlo_line_size[s \in STRING, i \in Nat] ==
    (CHOOSE out_r1 \in {(CHOOSE out_r2 \in {
        IF r2.st = "Ok" THEN Ok(r2.pos, [tag |-> "Size", size |-> r2.val]) ELSE r2
        : r2 \in {(IF r1.st = "Ok" THEN number[s, r1.pos] ELSE r1)}} : TRUE)
        : r1 \in {tag_no_case["SIZE ", s, i]}} : TRUE)

\* "AUTH" (" " / "=") [ auth-mechanism *( SP auth-mechanism ) ]
ehlo_line_auth[s \in STRING, i \in Nat] ==
    (CHOOSE out_r1 \in {(CHOOSE out_r2 \in {(CHOOSE out_r3 \in {
        IF r3.st = "Ok" THEN Ok(r3.pos, [tag |-> "Auth", mechanisms |-> r3.val]) ELSE r3
        : r3 \in {(IF r2.st = "Ok" THEN separated_list0([j \in Offsets(s) |-> SP[s, j]],
                                       [j \in Offsets(s) |-> auth_mechanism[s, j]], r2.pos) ELSE r2)}} : TRUE)
        : r2 \in {(IF r1.st = "Ok" THEN alt(<<tag_no_case[" ", s, r1.pos], tag_no_case["=", s, r1.pos]>>) ELSE r1)}} : TRUE)
        : r1 \in {tag_no_case["AUTH", s, i]}} : TRUE)

sep_ehlo_params[s \in STRING, i \in Nat] ==
    (CHOOSE out_r1 \in {
        (IF r1.st = "Ok" THEN separated_list0([j \in Offsets(s) |-> SP[s, j]],
                                 [j \in Offsets(s) |-> ehlo_param[s, j]], r1.pos) ELSE r1)
        : r1 \in {alt(<<SP[s, i], tag["=", s, i]>>)}} : TRUE)

\* ehlo-keyword [ (SP / "=") [ ehlo-param *( SP ehlo-param ) ] ]
ehlo_line_other[s \in STRING, i \in Nat] ==
    (CHOOSE out_r1 \in {(CHOOSE out_r2 \in {
        IF r2.st /= "Ok" THEN r2
        ELSE Ok(r2.pos, [tag |-> "Other", keyword |-> r1.val,
                         params |-> IF r2.val = None THEN <<>> ELSE r2.val[1]])
        : r2 \in {(IF r1.st = "Ok" THEN opt(sep_ehlo_params[s, r1.pos], r1.pos) ELSE r1)}} : TRUE)
        : r1 \in {ehlo_keyword[s, i]}} : TRUE)

\* ehlo-line = ehlo-keyword *( SP ehlo-param ): the ordered alternative over
\* the keyword branches, ending in the open form.
ehlo_line[s \in STRING, i \in Nat] ==
    alt([k \in 1..(Len(CapabilityKeywords) + 1) |->
            IF k > Len(CapabilityKeywords) THEN ehlo_line_other[s, i]
            ELSE IF CapabilityKeywords[k][1] = "Size" THEN ehlo_line_size[s, i]
            ELSE IF CapabilityKeywords[k][1] = "Auth" THEN ehlo_line_auth[s, i]
            ELSE value([tag |-> CapabilityKeywords[k][1]],
                       tag_no_case[CapabilityKeywords[k][2], s, i])])

SP_ehlo_greet[s \in STRING, i \in Nat] ==
    (CHOOSE out_sp \in {
        (IF sp.st = "Ok" THEN ehlo_greet[s, sp.pos] ELSE sp)
        : sp \in {SP[s, i]}} : TRUE)

\* "250-" ehlo-line CRLF
ehlo_ok_rsp_line[s \in STRING, j \in Nat] ==
    (CHOOSE out_r1 \in {(CHOOSE out_r2 \in {(CHOOSE out_r3 \in {
        IF r3.st = "Ok" THEN Ok(r3.pos, r2.val) ELSE r3
        : r3 \in {(IF r2.st = "Ok" THEN CRLF[s, r2.pos] ELSE r2)}} : TRUE)
        : r2 \in {(IF r1.st = "Ok" THEN ehlo_line[s, r1.pos] ELSE r1)}} : TRUE)
        : r1 \in {tag["250-", s, j]}} : TRUE)

\* "250 " Domain [ SP ehlo-greet ] CRLF
ehlo_ok_rsp_single[s \in STRING, i \in Nat] ==
    (CHOOSE out_r1 \in {(CHOOSE out_r2 \in {(CHOOSE out_r3 \in {(CHOOSE out_r4 \in {
        IF r4.st /= "Ok" THEN r4
        ELSE Ok(r4.pos, [domain |-> r2.val, greet |-> r3.val, lines |-> <<>>])
        : r4 \in {(IF r3.st = "Ok" THEN CRLF[s, r3.pos] ELSE r3)}} : TRUE)
        : r3 \in {(IF r2.st = "Ok" THEN opt(SP_ehlo_greet[s, r2.pos], r2.pos) ELSE r2)}} : TRUE)
        : r2 \in {(IF r1.st = "Ok" THEN parse_Domain[s, r1.pos] ELSE r1)}} : TRUE)
        : r1 \in {tag["250 ", s, i]}} : TRUE)

\* "250-" Domain [ SP ehlo-greet ] CRLF *( "250-" ehlo-line CRLF ) "250 " ehlo-line CRLF
ehlo_ok_rsp_multi[s \in STRING, i \in Nat] ==
    (CHOOSE out_r1 \in {(CHOOSE out_r2 \in {(CHOOSE out_r3 \in {(CHOOSE out_r4 \in {(CHOOSE out_r5 \in {(CHOOSE out_r6 \in {(CHOOSE out_r7 \in {(CHOOSE out_r8 \in {
        IF r8.st /= "Ok" THEN r8
        ELSE Ok(r8.pos, [domain |-> r2.val, greet |-> r3.val,
                         lines |-> Append(r5.val, r7.val)])
        : r8 \in {(IF r7.st = "Ok" THEN CRLF[s, r7.pos] ELSE r7)}} : TRUE)
        : r7 \in {(IF r6.st = "Ok" THEN ehlo_line[s, r6.pos] ELSE r6)}} : TRUE)
        : r6 \in {(IF r5.st = "Ok" THEN tag["250 ", s, r5.pos] ELSE r5)}} : TRUE)
        : r5 \in {(IF r4.st = "Ok" THEN many0([j \in Offsets(s) |-> ehlo_ok_rsp_line[s, j]], r4.pos) ELSE r4)}} : TRUE)
        : r4 \in {(IF r3.st = "Ok" THEN CRLF[s, r3.pos] ELSE r3)}} : TRUE)
        : r3 \in {(IF r2.st = "Ok" THEN opt(SP_ehlo_greet[s, r2.pos], r2.pos) ELSE r2)}} : TRUE)
        : r2 \in {(IF r1.st = "Ok" THEN parse_Domain[s, r1.pos] ELSE r1)}} : TRUE)
        : r1 \in {tag["250-", s, i]}} : TRUE)

ehlo_ok_rsp[s \in STRING, i \in Nat] == alt(<<ehlo_ok_rsp_single[s, i], ehlo_ok_rsp_multi[s, i]>>)

\* u16::from_str_radix(s, 10) on three digits
from_str_radix[s \in STRING, acc \in Nat] ==
    IF Len(s) = 0 THEN acc ELSE from_str_radix[Rest(s, 2), 10 * acc + Ord[At(s, 1)] - 48]

\* Reply-code = %x32-35 %x30-35 %x30-39, as written: any three digits
Reply_code[s \in STRING, i \in Nat] ==
    (CHOOSE out_r \in {
        IF r.st = "Ok" THEN Ok(r.pos, from_str_radix[r.val, 0]) ELSE r
        : r \in {take_while_m_n[3, 3, is_DIGIT, s, i]}} : TRUE)

\* Reply-code "-" [ textstring ] CRLF
Reply_line_more[s \in STRING, j \in Nat] ==
    (CHOOSE out_r1 \in {(CHOOSE out_r2 \in {(CHOOSE out_r3 \in {(CHOOSE out_r4 \in {
        IF r4.st = "Ok" THEN Ok(r4.pos, [code |-> r1.val, text |-> r3.val]) ELSE r4
        : r4 \in {(IF r3.st = "Ok" THEN CRLF[s, r3.pos] ELSE r3)}} : TRUE)
        : r3 \in {(IF r2.st = "Ok" THEN opt(textstring[s, r2.pos], r2.pos) ELSE r2)}} : TRUE)
        : r2 \in {(IF r1.st = "Ok" THEN tag["-", s, r1.pos] ELSE r1)}} : TRUE)
        : r1 \in {Reply_code[s, j]}} : TRUE)

\* Reply-line = *( Reply-code "-" [ textstring ] CRLF ) Reply-code [ SP textstring ] CRLF
Reply_line_parts[s \in STRING, i \in Nat] ==
    (CHOOSE out_r1 \in {(CHOOSE out_r2 \in {(CHOOSE out_r3 \in {(CHOOSE out_r4 \in {
        IF r4.st = "Ok" THEN Ok(r4.pos, [more |-> r1.val, code |-> r2.val, text |-> r3.val])
        ELSE r4
        : r4 \in {(IF r3.st = "Ok" THEN CRLF[s, r3.pos] ELSE r3)}} : TRUE)
        : r3 \in {(IF r2.st = "Ok" THEN opt(SP_textstring[s, r2.pos], r2.pos) ELSE r2)}} : TRUE)
        : r2 \in {(IF r1.st = "Ok" THEN Reply_code[s, r1.pos] ELSE r1)}} : TRUE)
        : r1 \in {many0([j \in Offsets(s) |-> Reply_line_more[s, j]], i)}} : TRUE)

Reply_line[s \in STRING, i \in Nat] == recognize(Reply_line_parts[s, i], s, i)

-----------------------------------------------------------------------------
(* types.rs: reply codes, and the serializers *)

\* The named reply codes
ReplyCodes ==
    << <<211, "SystemStatus">>, <<214, "HelpMessage">>, <<220, "Ready">>,
       <<221, "ClosingChannel">>, <<250, "Ok">>, <<251, "UserNotLocalWillForward">>,
       <<252, "CannotVrfy">>, <<354, "StartMailInput">>, <<421, "NotAvailable">>,
       <<450, "MailboxTemporarilyUnavailable">>, <<451, "ProcessingError">>,
       <<452, "InsufficientStorage">>, <<455, "UnableToAccommodateParameters">>,
       <<500, "SyntaxError">>, <<501, "ParameterSyntaxError">>,
       <<502, "CommandNotImplemented">>, <<503, "BadSequence">>,
       <<504, "ParameterNotImplemented">>, <<521, "NoMailService">>,
       <<550, "MailboxPermanentlyUnavailable">>, <<551, "UserNotLocal">>,
       <<552, "ExceededStorageAllocation">>, <<553, "MailboxNameNotAllowed">>,
       <<554, "TransactionFailed">>, <<555, "ParametersNotImplemented">> >>

\* A variant of From<u16> for ReplyCode without the arm for 455.
ReplyCode_from_u16_without_455(val) ==
    CASE val = 211 -> [tag |-> "SystemStatus"]
      [] val = 214 -> [tag |-> "HelpMessage"]
      [] val = 220 -> [tag |-> "Ready"]
      [] val = 221 -> [tag |-> "ClosingChannel"]
      [] val = 250 -> [tag |-> "Ok"]
      [] val = 251 -> [tag |-> "UserNotLocalWillForward"]
      [] val = 252 -> [tag |-> "CannotVrfy"]
      [] val = 354 -> [tag |-> "StartMailInput"]
      [] val = 421 -> [tag |-> "NotAvailable"]
      [] val = 450 -> [tag |-> "MailboxTemporarilyUnavailable"]
      [] val = 451 -> [tag |-> "ProcessingError"]
      [] val = 452 -> [tag |-> "InsufficientStorage"]
      [] val = 500 -> [tag |-> "SyntaxError"]
      [] val = 501 -> [tag |-> "ParameterSyntaxError"]
      [] val = 502 -> [tag |-> "CommandNotImplemented"]
      [] val = 503 -> [tag |-> "BadSequence"]
      [] val = 504 -> [tag |-> "ParameterNotImplemented"]
      [] val = 521 -> [tag |-> "NoMailService"]
      [] val = 550 -> [tag |-> "MailboxPermanentlyUnavailable"]
      [] val = 551 -> [tag |-> "UserNotLocal"]
      [] val = 552 -> [tag |-> "ExceededStorageAllocation"]
      [] val = 553 -> [tag |-> "MailboxNameNotAllowed"]
      [] val = 554 -> [tag |-> "TransactionFailed"]
      [] val = 555 -> [tag |-> "ParametersNotImplemented"]
      [] OTHER -> [tag |-> "Other", v |-> val]

\* impl From<u16> for ReplyCode: one arm per named code, then Other(value)
ReplyCode_from_u16(val) ==
    CASE val = 211 -> [tag |-> "SystemStatus"]
      [] val = 214 -> [tag |-> "HelpMessage"]
      [] val = 220 -> [tag |-> "Ready"]
      [] val = 221 -> [tag |-> "ClosingChannel"]
      [] val = 250 -> [tag |-> "Ok"]
      [] val = 251 -> [tag |-> "UserNotLocalWillForward"]
      [] val = 252 -> [tag |-> "CannotVrfy"]
      [] val = 354 -> [tag |-> "StartMailInput"]
      [] val = 421 -> [tag |-> "NotAvailable"]
      [] val = 450 -> [tag |-> "MailboxTemporarilyUnavailable"]
      [] val = 451 -> [tag |-> "ProcessingError"]
      [] val = 452 -> [tag |-> "InsufficientStorage"]
      [] val = 455 -> [tag |-> "UnableToAccommodateParameters"]
      [] val = 500 -> [tag |-> "SyntaxError"]
      [] val = 501 -> [tag |-> "ParameterSyntaxError"]
      [] val = 502 -> [tag |-> "CommandNotImplemented"]
      [] val = 503 -> [tag |-> "BadSequence"]
      [] val = 504 -> [tag |-> "ParameterNotImplemented"]
      [] val = 521 -> [tag |-> "NoMailService"]
      [] val = 550 -> [tag |-> "MailboxPermanentlyUnavailable"]
      [] val = 551 -> [tag |-> "UserNotLocal"]
      [] val = 552 -> [tag |-> "ExceededStorageAllocation"]
      [] val = 553 -> [tag |-> "MailboxNameNotAllowed"]
      [] val = 554 -> [tag |-> "TransactionFailed"]
      [] val = 555 -> [tag |-> "ParametersNotImplemented"]
      [] OTHER -> [tag |-> "Other", v |-> val]

\* impl From<ReplyCode> for u16: one arm per variant
u16_from_ReplyCode(val) ==
    CASE val.tag = "SystemStatus" -> 211
      [] val.tag = "HelpMessage" -> 214
      [] val.tag = "Ready" -> 220
      [] val.tag = "ClosingChannel" -> 221
      [] val.tag = "Ok" -> 250
      [] val.tag = "UserNotLocalWillForward" -> 251
      [] val.tag = "CannotVrfy" -> 252
      [] val.tag = "StartMailInput" -> 354
      [] val.tag = "NotAvailable" -> 421
      [] val.tag = "MailboxTemporarilyUnavailable" -> 450
      [] val.tag = "ProcessingError" -> 451
      [] val.tag = "InsufficientStorage" -> 452
      [] val.tag = "UnableToAccommodateParameters" -> 455
      [] val.tag = "SyntaxError" -> 500
      [] val.tag = "ParameterSyntaxError" -> 501
      [] val.tag = "CommandNotImplemented" -> 502
      [] val.tag = "BadSequence" -> 503
      [] val.tag = "ParameterNotImplemented" -> 504
      [] val.tag = "NoMailService" -> 521
      [] val.tag = "MailboxPermanentlyUnavailable" -> 550
      [] val.tag = "UserNotLocal" -> 551
      [] val.tag = "ExceededStorageAllocation" -> 552
      [] val.tag = "MailboxNameNotAllowed" -> 553
      [] val.tag = "TransactionFailed" -> 554
      [] val.tag = "ParametersNotImplemented" -> 555
      [] val.tag = "Other" -> val.v

\* Display of a u16
RECURSIVE format_u16(_)
format_u16(n) == IF n < 10 THEN Chr(48 + n) ELSE format_u16(n \div 10) \o Chr(48 + (n % 10))

DomainOrAddress_serialize(d) ==
    IF d.tag = "Domain" THEN d.s ELSE "[" \o d.s \o "]"

Parameter_serialize(p) ==
    IF p.tag = "Size" THEN "SIZE=" \o format_u32(p.size)
    ELSE p.keyword \o (IF p.value = None THEN "" ELSE "=" \o p.value[1])

AtomOrQuoted_serialize(a) ==
    IF a.tag = "Atom" THEN a.s ELSE "\"" \o escape_quoted(a.s) \o "\""

\* for parameter in parameters: " " then the parameter
RECURSIVE parameters_serialize(_)
parameters_serialize(parameters) ==
    IF Len(parameters) = 0 THEN ""
    ELSE " " \o Parameter_serialize(parameters[1]) \o parameters_serialize(Tail(parameters))

Command_serialize(c) ==
    (CASE c.tag = "Helo" -> "HELO " \o DomainOrAddress_serialize(c.domain_or_address)
       [] c.tag = "Ehlo" -> "EHLO " \o DomainOrAddress_serialize(c.domain_or_address)
       [] c.tag = "Mail" ->
            "MAIL FROM:<" \o c.reverse_path \o ">" \o parameters_serialize(c.parameters)
       [] c.tag = "Rcpt" ->
            "RCPT TO:<" \o c.forward_path \o ">" \o parameters_serialize(c.parameters)
       [] c.tag = "Data" -> "DATA"
       [] c.tag = "Rset" -> "RSET"
       [] c.tag = "Vrfy" -> "VRFY " \o AtomOrQuoted_serialize(c.user_or_mailbox)
       [] c.tag = "Expn" -> "EXPN " \o AtomOrQuoted_serialize(c.mailing_list)
       [] c.tag = "Help" ->
            IF c.argument = None THEN "HELP"
            ELSE "HELP " \o AtomOrQuoted_serialize(c.argument[1])
       [] c.tag = "Noop" ->
            IF c.argument = None THEN "NOOP"
            ELSE "NOOP " \o AtomOrQuoted_serialize(c.argument[1])
       [] c.tag = "Quit" -> "QUIT"
       [] c.tag = "StartTLS" -> "STARTTLS"
       [] c.tag = "AuthLogin" ->
            IF c.initial = None THEN "AUTH LOGIN" ELSE "AUTH LOGIN " \o c.initial[1]
       [] c.tag = "AuthPlain" ->
            IF c.initial = None THEN "AUTH PLAIN" ELSE "AUTH PLAIN " \o c.initial[1])
    \o "\r\n"

AuthMechanism_serialize(m) ==
    IF m.tag = "Other" THEN m.s
    ELSE AuthMechanismNames[CHOOSE k \in 1..Len(AuthMechanismNames) :
                                AuthMechanismNames[k][1] = m.tag][2]

\* The items joined by single spaces
RECURSIVE join_SP(_)
join_SP(items) ==
    IF Len(items) = 0 THEN ""
    ELSE IF Len(items) = 1 THEN items[1]
    ELSE items[1] \o " " \o join_SP(Tail(items))

\* A variant of Capability::serialize that writes Size as the MAIL parameter is.
Capability_serialize_Size_as_Parameter(c) ==
    CASE c.tag = "Size" -> "SIZE=" \o format_u32(c.size)
      [] c.tag = "Auth" ->
            IF Len(c.mechanisms) = 0 THEN "AUTH"
            ELSE "AUTH " \o join_SP([k \in 1..Len(c.mechanisms) |->
                                        AuthMechanism_serialize(c.mechanisms[k])])
      [] c.tag = "Other" ->
            IF Len(c.params) = 0 THEN c.keyword
            ELSE c.keyword \o " " \o join_SP(c.params)
      [] OTHER ->
            CapabilityKeywords[CHOOSE k \in 1..Len(CapabilityKeywords) :
                                   CapabilityKeywords[k][1] = c.tag][2]

Capability_serialize(c) ==
    CASE c.tag = "Size" -> "SIZE " \o format_u32(c.size)
      [] c.tag = "Auth" ->
            IF Len(c.mechanisms) = 0 THEN "AUTH"
            ELSE "AUTH " \o join_SP([k \in 1..Len(c.mechanisms) |->
                                        AuthMechanism_serialize(c.mechanisms[k])])
      [] c.tag = "Other" ->
            IF Len(c.params) = 0 THEN c.keyword
            ELSE c.keyword \o " " \o join_SP(c.params)
      [] OTHER ->
            CapabilityKeywords[CHOOSE k \in 1..Len(CapabilityKeywords) :
                                   CapabilityKeywords[k][1] = c.tag][2]

\* str::lines: split at "\n", a "\r" before it dropped, no line after a final "\n"
lines[text \in STRING] ==
    LET n == find(text, "\n")
        line == SubSeq(text, 1, n - 1)
    IN  IF Len(text) = 0 THEN <<>>
        ELSE IF n = 0 THEN <<text>>
        ELSE <<IF n > 1 /\ At(line, n - 1) = "\r" THEN SubSeq(line, 1, n - 2) ELSE line>>
                 \o lines[Rest(text, n + 1)]

\* A variant of the loop over the lines that writes no line for an empty item.
RECURSIVE write_lines_with_text_only(_, _)
write_lines_with_text_only(prefix, items) ==
    IF Len(items) = 0 THEN ""
    ELSE (IF items[1] = "" THEN "" ELSE prefix \o items[1] \o "\r\n")
             \o write_lines_with_text_only(prefix, Tail(items))

\* prefix, item, CRLF for each item
RECURSIVE write_lines(_, _)
write_lines(prefix, items) ==
    IF Len(items) = 0 THEN ""
    ELSE prefix \o items[1] \o "\r\n" \o write_lines(prefix, Tail(items))

Front(items) == SubSeq(items, 1, Len(items) - 1)

Last(items) == items[Len(items)]

Response_serialize(v) ==
    CASE v.tag = "Greeting" ->
            LET ls == lines[v.text]
            IN  IF Len(ls) = 0 THEN "220 " \o v.domain \o "\r\n"
                ELSE IF Len(ls) = 1 THEN "220 " \o v.domain \o " " \o ls[1] \o "\r\n"
                ELSE "220-" \o v.domain \o " " \o ls[1] \o "\r\n"
                         \o write_lines("220-", Front(Tail(ls)))
                         \o "220 " \o Last(ls) \o "\r\n"
      [] v.tag = "Ehlo" ->
            LET greet == IF v.greet = None THEN "" ELSE " " \o v.greet[1]
                caps == [k \in 1..Len(v.capabilities) |->
                            Capability_serialize(v.capabilities[k])]
            IN  IF Len(caps) = 0 THEN "250 " \o v.domain \o greet \o "\r\n"
                ELSE "250-" \o v.domain \o greet \o "\r\n"
                         \o write_lines("250-", Front(caps))
                         \o "250 " \o Last(caps) \o "\r\n"
      [] v.tag = "Other" ->
            LET code == format_u16(u16_from_ReplyCode(v.code))
            IN  IF Len(v.lines) = 0 THEN code \o "\r\n"
                ELSE write_lines(code \o "-", Front(v.lines))
                         \o code \o " " \o Last(v.lines) \o "\r\n"

-----------------------------------------------------------------------------
(* parse/imf.rs and parse/trace.rs: the Return-Path and Received lines *)

\* FWS: the body is unimplemented!(), which panics whatever the input is.
FWS[s \in STRING, i \in Nat] == Panic

\* CFWS: the body is unimplemented!() as well.
CFWS[s \in STRING, i \in Nat] == Panic

\* Return-path-line = "Return-Path:" FWS Reverse-path <CRLF>
return_path_line[s \in STRING, i \in Nat] ==
    (CHOOSE out_r1 \in {(CHOOSE out_r2 \in {(CHOOSE out_r3 \in {
        recognize((IF r3.st = "Ok" THEN CRLF[s, r3.pos] ELSE r3), s, i)
        : r3 \in {(IF r2.st = "Ok" THEN Reverse_path[s, r2.pos] ELSE r2)}} : TRUE)
        : r2 \in {(IF r1.st = "Ok" THEN FWS[s, r1.pos] ELSE r1)}} : TRUE)
        : r1 \in {tag_no_case["Return-Path:", s, i]}} : TRUE)

FWS_address_literal[s \in STRING, i \in Nat] ==
    (CHOOSE out_f \in {
        (IF f.st = "Ok" THEN address_literal[s, f.pos] ELSE f)
        : f \in {FWS[s, i]}} : TRUE)

\* TCP-info = address-literal / ( Domain FWS address-literal )
tcp_info[s \in STRING, i \in Nat] ==
    (CHOOSE out_d \in {
        recognize(alt(<<address_literal[s, i],
                        (IF d.st = "Ok" THEN FWS_address_literal[s, d.pos] ELSE d)>>), s, i)
        : d \in {Domain[s, i]}} : TRUE)

\* FWS "(" TCP-info ")"
FWS_TCP_info[s \in STRING, i \in Nat] ==
    (CHOOSE out_r1 \in {(CHOOSE out_r2 \in {(CHOOSE out_r3 \in {
        (IF r3.st = "Ok" THEN tag[")", s, r3.pos] ELSE r3)
        : r3 \in {(IF r2.st = "Ok" THEN tcp_info[s, r2.pos] ELSE r2)}} : TRUE)
        : r2 \in {(IF r1.st = "Ok" THEN tag["(", s, r1.pos] ELSE r1)}} : TRUE)
        : r1 \in {FWS[s, i]}} : TRUE)

\* Extended-Domain = Domain /
\*                   ( Domain FWS "(" TCP-info ")" ) /
\*                   ( address-literal FWS "(" TCP-info ")" )
extended_domain[s \in STRING, i \in Nat] ==
    (CHOOSE out_d \in {(CHOOSE out_a \in {
        recognize(alt(<<d,
                        (IF d.st = "Ok" THEN FWS_TCP_info[s, d.pos] ELSE d),
                        (IF a.st = "Ok" THEN FWS_TCP_info[s, a.pos] ELSE a)>>), s, i)
        : a \in {address_literal[s, i]}} : TRUE)
        : d \in {Domain[s, i]}} : TRUE)

\* From-domain = "FROM" FWS Extended-Domain
from_domain[s \in STRING, i \in Nat] ==
    (CHOOSE out_r1 \in {(CHOOSE out_r2 \in {
        recognize((IF r2.st = "Ok" THEN extended_domain[s, r2.pos] ELSE r2), s, i)
        : r2 \in {(IF r1.st = "Ok" THEN FWS[s, r1.pos] ELSE r1)}} : TRUE)
        : r1 \in {tag_no_case["FROM", s, i]}} : TRUE)

\* By-domain = CFWS "BY" FWS Extended-Domain
by_domain[s \in STRING, i \in Nat] ==
    (CHOOSE out_r1 \in {(CHOOSE out_r2 \in {(CHOOSE out_r3 \in {
        recognize((IF r3.st = "Ok" THEN extended_domain[s, r3.pos] ELSE r3), s, i)
        : r3 \in {(IF r2.st = "Ok" THEN FWS[s, r2.pos] ELSE r2)}} : TRUE)
        : r2 \in {(IF r1.st = "Ok" THEN tag_no_case["BY", s, r1.pos] ELSE r1)}} : TRUE)
        : r1 \in {CFWS[s, i]}} : TRUE)

\* Stamp = From-domain By-domain Opt-info [cfws] ";" FWS date-time
\* The tuple applies its parsers in order and stops at the first that does
\* not succeed. From-domain and By-domain do not succeed on any input (the
\* first needs FWS, the second begins with CFWS), so the result of the tuple
\* is the result of one of them, and Opt-info, ";" and date-time are never
\* applied.
stamp[s \in STRING, i \in Nat] ==
    (CHOOSE out_r1 \in {
        recognize((IF r1.st = "Ok" THEN by_domain[s, r1.pos] ELSE r1), s, i)
        : r1 \in {from_domain[s, i]}} : TRUE)

\* Time-stamp-line = "Received:" FWS Stamp <CRLF>
time_stamp_line[s \in STRING, i \in Nat] ==
    (CHOOSE out_r1 \in {(CHOOSE out_r2 \in {(CHOOSE out_r3 \in {
        recognize((IF r3.st = "Ok" THEN CRLF[s, r3.pos] ELSE r3), s, i)
        : r3 \in {(IF r2.st = "Ok" THEN stamp[s, r2.pos] ELSE r2)}} : TRUE)
        : r2 \in {(IF r1.st = "Ok" THEN FWS[s, r1.pos] ELSE r1)}} : TRUE)
        : r1 \in {tag_no_case["Received:", s, i]}} : TRUE)

-----------------------------------------------------------------------------
(* TextString *)

\* is_text_string_byte: HT, SP and printable US-ASCII
is_text_string_byte == {c \in Bytes : Ord[c] = 9 \/ Ord[c] \in 32..126}

InvalidTextString == [st |-> "Err", err |-> "InvalidTextString"]

\* A variant of TextString::new that wraps the string without looking at it.
TextString_new_unchecked(s) == [st |-> "Ok", val |-> s]

\* TextString::new
TextString_new(s) ==
    IF \A k \in 1..Len(s) : At(s, k) \in is_text_string_byte
    THEN [st |-> "Ok", val |-> s]
    ELSE InvalidTextString

\* Response::other
Response_other(code, text) == [tag |-> "Other", code |-> code, lines |-> <<text>>]

-----------------------------------------------------------------------------
(* The values the response parsers hand to the caller, as Response values *)

\* Greeting { domain, text } as Response::Greeting
Greeting_into_Response(g) == [tag |-> "Greeting", domain |-> g.domain, text |-> g.text]

\* EhloOkResp { domain, greet, lines } as Response::Ehlo
EhloOkResp_into_Response(e) ==
    [tag |-> "Ehlo", domain |-> e.domain, greet |-> e.greet, capabilities |-> e.lines]

\* The text of each line of a reply: a line without text is the empty string,
\* and a last line without text adds none.
reply_texts(parts) ==
    [k \in 1..Len(parts.more) |-> unwrap_or_empty(parts.more[k].text)]
        \o (IF parts.text = None THEN <<>> ELSE <<parts.text[1]>>)

\* Reply-lines: the lines of Reply-line as Response::Other
Reply_lines[s \in STRING, i \in Nat] ==
    (CHOOSE out_r \in {
        IF r.st /= "Ok" THEN r
        ELSE Ok(r.pos, [tag |-> "Other", code |-> ReplyCode_from_u16(r.val.code),
                        lines |-> reply_texts(r.val)])
        : r \in {Reply_line_parts[s, i]}} : TRUE)

\* The entry points, applied to a whole buffer.
Parsers == {"command", "Greeting", "ehlo_ok_rsp", "Reply_line"}

run(p, s) ==
    CASE p = "command" -> command[s, 1]
      [] p = "Greeting" ->
            (CHOOSE out_r \in {IF r.st = "Ok" THEN Ok(r.pos, Greeting_into_Response(r.val)) ELSE r
                 : r \in {Greeting[s, 1]}} : TRUE)
      [] p = "ehlo_ok_rsp" ->
            (CHOOSE out_r \in {IF r.st = "Ok" THEN Ok(r.pos, EhloOkResp_into_Response(r.val)) ELSE r
                 : r \in {ehlo_ok_rsp[s, 1]}} : TRUE)
      [] p = "Reply_line" -> Reply_line[s, 1]
      [] p = "Reply_lines" -> Reply_lines[s, 1]

\* The serializer of a value: Command::serialize or Response::serialize
serialize(p, v) == IF p = "command" THEN Command_serialize(v) ELSE Response_serialize(v)

-----------------------------------------------------------------------------
(* The buffers the parsers are exercised on *)

\* The largest number of ESMTP parameters on a generated MAIL or RCPT line
MaxParams == 2

\* The largest number of lines before the last line of a generated reply
MaxLines == 2

Cat(A, B) == {a \o b : a \in A, b \in B}

\* The concatenations of at most n items
RECURSIVE Repeat(_, _)
Repeat(items, n) == IF n = 0 THEN {""} ELSE {""} \cup Cat(items, Repeat(items, n - 1))

\* What follows a line in the buffer
Tails == {"", "?\r\n"}

HeloArgs ==
    {"example.com", "a-b.c2", "xn--abc", "xn--abc.example", "a-b-c.d-e", "a.", "[1.2.3.4]", "[1.2.3]",
     "[IPv6:::1]",
     "[IPv6:1:2:3:4:5:6:7:8]", "[IPv6:1::2.3.4.5]", "[x-y:z]", "[1.2.3.4"}

PathArgs ==
    {"<>", "<a@b>", "<userx@y.foo.org>", "<@a,@b:c@d>", "<\"x\\y z\"@c>", "<a.b@[1.2.3.4]>",
     "<Postmaster>", "<postmaster@a.b>", "<Postmaster@[1.2.3.4]>", "<a@>", "<a b@c>", "a@b"}

ParamItems == {" SIZE=1", " SIZE=4294967296", " BODY=8BITMIME", " X-a"}

ParamArgs ==
    Repeat(ParamItems, MaxParams)
        \cup {" SIZE=4294967295", " size=007", " SIZE", " SIZE=1k", " k=", " =v", "  k", " k=a=b", " "}

StringArgs ==
    {"a", "x=y", "a b", "\"\"", "\"a b\"", "\"a\\\\b\\\"c\"", "\"a\\b\"", "\"\\a\\ \\~\"", "\"a\r\nb\"",
     "\"a", ""}

Base64Args == {"", " ", " dGVzdA==", " ab=", " a=b", " ==="}

\* IPv6-addr in each of its four forms
IPv6Full == {"1:2:3:4:5:6:7:8", "ab:0:0:0:0:0:0:FFFF"}

IPv6Comp == Cat(Cat({"", "1", "a:b", "1:2:3"}, {"::"}), {"", "1", "a:b", "1:2:3"})

IPv6v4Full == {"1:2:3:4:5:6:1.2.3.4"}

IPv6v4Comp == Cat(Cat(Cat({"", "1", "1:2"}, {"::"}), {"", "2:", "ffff:0:"}), {"1.2.3.4"})

IPv6Addrs == IPv6Full \cup IPv6Comp \cup IPv6v4Full \cup IPv6v4Comp

\* Decimal numbers of one to three digits, below and above 255
SnumTexts == {"0", "1", "255", "256", "999"}

\* Snum 3("." Snum) with the first and the last number drawn from SnumTexts
IPv4Literals == {a \o ".1.1." \o d : a \in SnumTexts, d \in SnumTexts}

CommandLines ==
    {"DATA", "RSET", "QUIT", "STARTTLS", "HELP", "NOOP", "data", "Quit", "HELPER", "DATA ",
     "XYZ", "", "HELO", "MAIL FROM:", "AUTH", "AUTH CRAM-MD5"}
        \cup Cat({"HELO ", "EHLO ", "ehlo "}, HeloArgs)
        \cup Cat(Cat({"HELO [IPv6:"}, IPv6Addrs), {"]"})
        \cup Cat(Cat({"HELO ["}, IPv4Literals), {"]"})
        \cup Cat({"MAIL FROM:", "RCPT TO:", "mail from: ", "RCPT TO: "}, PathArgs)
        \cup Cat({"MAIL FROM:<a@b>", "RCPT TO:<a@b>"}, ParamArgs)
        \cup Cat({"VRFY ", "EXPN ", "HELP ", "noop "}, StringArgs)
        \cup Cat({"AUTH LOGIN", "AUTH PLAIN", "auth login"}, Base64Args)

CommandInputs ==
    Cat(Cat(CommandLines, {"\r\n"}), Tails)
        \cup {"HELO a\n", "HELO a\r", "HELO a\r\r\n", "EHLO exam", "HELO example.com\r\n???"}
        \cup {"RCPT TO:<POSTMASTER>\r\n", "rcpt to: <postMaster@Example.ORG> X-a\r\n",
              "RCPT TO:<Postmaster@>\r\n", "RCPT TO:<Postmasters@a.b>\r\n"}

GreetingFirst ==
    Cat({"220 ", "220-"}, {"example.org", "example.org hi there", "example.org "})
        \cup {"220 [1.2.3.4]", "220-[1.2.3.4] hi", "220 a-"}

GreetingMore == {"220-\r\n", "220-x y\r\n"}

GreetingLast == {"", "220\r\n", "220 z\r\n", "220 \r\n", "250 z\r\n", "220-z\r\n"}

GreetingInputs ==
    Cat(Cat(Cat(Cat(GreetingFirst, {"\r\n"}), Repeat(GreetingMore, MaxLines)), GreetingLast),
        Tails)
        \cup {"220", "221 a\r\n", "220 a\n", "220  a\r\n"}

EhloFirst ==
    Cat({"250 ", "250-"}, {"example.org", "example.org hi"}) \cup {"250-example.org ", "250-[1.2.3.4]"}

EhloMore == Cat(Cat({"250-"}, {"STARTTLS", "SIZE 12345", "AUTH LOGIN x"}), {"\r\n"})

EhloLastLines ==
    {"STARTTLS", "starttls", "SIZE 12345", "size 007", "SIZE 4294967295", "SIZE 4294967296",
     "SIZE", "SIZE x", "AUTH LOGIN PLAIN", "AUTH=CRAM-MD5 x", "AUTH ", "AUTH", "AUTH LOGIN ",
     "HELP", "HELPER", "8BITMIME", "X-a b c", "X=a", "X ", "-X", ""}

\* Keywords that are none of the keywords ehlo-line knows
UnknownKeywords == {"HELPER", "DSNX", "SIZEX", "AUTHX", "XYZ", "X-a"}

\* *( SP ehlo-param )
EhloParamLists == {<<>>, <<"b">>, <<"b", "c=d">>}

UnknownKeywordLines == {join_SP(<<k>> \o ps) : k \in UnknownKeywords, ps \in EhloParamLists}

EhloLast ==
    {""} \cup Cat(Cat({"250 "}, EhloLastLines \cup UnknownKeywordLines), {"\r\n"})
        \cup {"250-STARTTLS\r\n", "550 X\r\n"}

EhloInputs ==
    Cat(Cat(Cat(Cat(EhloFirst, {"\r\n"}), Repeat(EhloMore, MaxLines)), {"", "250 STARTTLS\r\n"}),
        Tails)
        \cup Cat(Cat(Cat({"250-a"}, {"\r\n"}), EhloLast), Tails)
        \cup {"250", "25", "250-a\n"}

ReplyMore == {"250-\r\n", "250-a b\r\n", "550-a b\r\n"}

ReplyLast == Cat(Cat({"250", "550"}, {"", " ok", " ", "-x"}), {"\r\n"})

ReplyCodeDigits == Cat(Cat({"0", "1", "2", "5", "6", "9"}, {"0", "5", "6", "9"}), {"0", "9"})

ReplyInputs ==
    Cat(Cat(Repeat(ReplyMore, MaxLines), ReplyLast), Tails)
        \cup Cat(ReplyCodeDigits, {" ok\r\n", "\r\n"})
        \cup {"", "25", "2500 x\r\n", "25x ok\r\n", "250 ok\n", "250-a\r\n", "250-a\r\n25",
              "250-a\r\n550 b\r\n"}

InputsOf(p) ==
    CASE p = "command" -> CommandInputs
      [] p = "Greeting" -> GreetingInputs
      [] p = "ehlo_ok_rsp" -> EhloInputs
      [] p = "Reply_line" -> ReplyInputs

-----------------------------------------------------------------------------
(* The harness: a buffer is parsed; an accepted buffer is parsed again from *)
(* each of its prefixes, and its value is serialized and parsed back.       *)

NoResult == [st |-> "None"]

Init ==
    /\ parser \in Parsers
    /\ input \in InputsOf(parser)
    /\ pc = "input"
    /\ res = NoResult
    /\ cut = 0
    /\ pres = NoResult
    /\ msg = None
    /\ wire = ""
    /\ res2 = NoResult

\* parser(input)
Parse ==
    /\ pc = "input"
    /\ res' = run(parser, input)
    /\ pc' = "parsed"
    /\ UNCHANGED <<parser, input, cut, pres, msg, wire, res2>>

\* parser(&input[..k]) for an accepted input
SplitParse(k) ==
    /\ pc = "parsed"
    /\ res.st = "Ok"
    /\ cut' = k
    /\ pres' = run(parser, SubSeq(input, 1, k))
    /\ pc' = "split"
    /\ UNCHANGED <<parser, input, res, msg, wire, res2>>

\* value.serialize(&mut buf) for the value of an accepted input
Serialize ==
    /\ pc = "parsed"
    /\ res.st = "Ok"
    /\ parser /= "Reply_line"
    /\ msg' = res.val
    /\ wire' = serialize(parser, res.val)
    /\ pc' = "serialized"
    /\ UNCHANGED <<parser, input, res, cut, pres, res2>>

\* parser(&buf)
Reparse ==
    /\ pc = "serialized"
    /\ res2' = run(parser, wire)
    /\ pc' = "reparsed"
    /\ UNCHANGED <<parser, input, res, cut, pres, msg, wire>>

Next ==
    \/ Parse
    \/ \E k \in 0..Len(input) : SplitParse(k)
    \/ Serialize
    \/ Reparse

Spec == Init /\ [][Next]_vars

-----------------------------------------------------------------------------
(* Values built by the caller from the public variants and constructors, *)
(* serialized and parsed back.  The payloads are words of the productions *)
(* of RFC 5321 their fields stand for (Domain, address-literal, Atom,     *)
(* Quoted-string content, Path, esmtp-keyword and esmtp-value, base64,    *)
(* ehlo-keyword and ehlo-param), and texts TextString::new accepts.       *)

\* The sequences of at most n items
RECURSIVE SeqsUpTo(_, _)
SeqsUpTo(S, n) ==
    IF n = 0 THEN {<<>>}
    ELSE {<<>>} \cup {<<x>> \o t : x \in S, t \in SeqsUpTo(S, n - 1)}

DomainOrAddressValues ==
    {[tag |-> "Domain", s |-> d] : d \in {"example.org", "a-b.c2", "xn--abc"}}
        \cup {[tag |-> "Address", s |-> a] : a \in {"1.2.3.4", "IPv6:::1", "x-y:z"}}

ParameterValues ==
    {[tag |-> "Size", size |-> <<1>>], [tag |-> "Size", size |-> U32Max],
     [tag |-> "Other", keyword |-> "BODY", value |-> Some("8BITMIME")],
     [tag |-> "Other", keyword |-> "X-a", value |-> None]}

AtomOrQuotedValues ==
    {[tag |-> "Atom", s |-> a] : a \in {"a", "x=y"}}
        \cup {[tag |-> "Quoted", s |-> q] : q \in {"", "a b", "a\\b\"c"}}

CommandValues ==
    {[tag |-> t, domain_or_address |-> d] : t \in {"Helo", "Ehlo"}, d \in DomainOrAddressValues}
        \cup {[tag |-> "Mail", reverse_path |-> p, parameters |-> ps] :
                 p \in {"", "a@b", "\"x y\"@c"}, ps \in SeqsUpTo(ParameterValues, MaxParams)}
        \cup {[tag |-> "Rcpt", forward_path |-> p, parameters |-> ps] :
                 p \in {"Postmaster", "@a,@b:c@d", "a.b@[1.2.3.4]"}, ps \in SeqsUpTo(ParameterValues, 1)}
        \cup {[tag |-> t] : t \in {"Data", "Rset", "Quit", "StartTLS"}}
        \cup {[tag |-> "Vrfy", user_or_mailbox |-> a] : a \in AtomOrQuotedValues}
        \cup {[tag |-> "Expn", mailing_list |-> a] : a \in AtomOrQuotedValues}
        \cup {[tag |-> t, argument |-> a] :
                 t \in {"Help", "Noop"}, a \in {None} \cup {Some(x) : x \in AtomOrQuotedValues}}
        \cup {[tag |-> t, initial |-> b] :
                 t \in {"AuthLogin", "AuthPlain"}, b \in {None, Some("dGVzdA=="), Some("YQ==")}}

CapabilityValues ==
    {[tag |-> "StartTLS"], [tag |-> "Help"], [tag |-> "Size", size |-> <<1, 2>>],
     [tag |-> "Auth", mechanisms |-> <<[tag |-> "Login"], [tag |-> "Other", s |-> "X"]>>],
     [tag |-> "Auth", mechanisms |-> <<>>],
     [tag |-> "Other", keyword |-> "X-a", params |-> <<"b", "c">>],
     [tag |-> "Other", keyword |-> "HELPER", params |-> <<>>]}

GreetingValues ==
    {[tag |-> "Greeting", domain |-> d, text |-> t] :
        d \in {"example.org", "a-b.c2", "xn--abc"},
        t \in {"", "hi there", "a\nb", "a\n\nb"}}

EhloValues ==
    {[tag |-> "Ehlo", domain |-> d, greet |-> g, capabilities |-> cs] :
        d \in {"example.org"}, g \in {None, Some("hi there")},
        cs \in SeqsUpTo(CapabilityValues, MaxLines)}

\* TextString::new accepts every string of HT, SP and printable bytes
TextStringValues == {"", "ok", "a b"}

OtherValues ==
    {[tag |-> "Other", code |-> c, lines |-> ls] :
        c \in {[tag |-> "Ok"], [tag |-> "TransactionFailed"], [tag |-> "Other", v |-> 299]},
        ls \in SeqsUpTo(TextStringValues, MaxLines)}

ValueParsers == {"command", "Greeting", "ehlo_ok_rsp", "Reply_lines"}

ValuesOf(p) ==
    CASE p = "command" -> CommandValues
      [] p = "Greeting" -> GreetingValues
      [] p = "ehlo_ok_rsp" -> EhloValues
      [] p = "Reply_lines" -> OtherValues

InitValue ==
    /\ parser \in ValueParsers
    /\ msg \in ValuesOf(parser)
    /\ pc = "built"
    /\ input = ""
    /\ res = NoResult
    /\ cut = 0
    /\ pres = NoResult
    /\ wire = ""
    /\ res2 = NoResult

\* value.serialize(&mut buf) for a value built by the caller
SerializeValue ==
    /\ pc = "built"
    /\ wire' = serialize(parser, msg)
    /\ pc' = "serialized"
    /\ UNCHANGED <<parser, input, res, cut, pres, msg, res2>>

NextValue == SerializeValue \/ Reparse

SpecValue == InitValue /\ [][NextValue]_vars

-----------------------------------------------------------------------------
(* Properties *)

IsPrefix(x, y) == Len(x) <= Len(y) /\ SubSeq(y, 1, Len(x)) = x

Statuses == {"Ok", "Incomplete", "Error"}

\* The k-th byte of a line, or the empty string past its end
byte_at(l, k) == IF k <= Len(l) THEN SubSeq(l, k, k) ELSE ""

\* C1: every Command value built from the public variants, serialized by
\* Command::serialize and parsed by the command parser, comes back as Success
\* with nothing remaining and a value equal to the one serialized.
Command_round_trip ==
    (pc = "reparsed" /\ parser = "command")
        => (res2.st = "Ok" /\ res2.pos = Len(wire) + 1 /\ res2.val = msg)

\* C2: every Response value built from the public constructors or variants,
\* serialized by Response::serialize and parsed by the matching response
\* parser, comes back as Success with nothing remaining and an equal value.
Response_round_trip ==
    (pc = "reparsed" /\ parser \in {"Greeting", "ehlo_ok_rsp", "Reply_lines"})
        => (res2.st = "Ok" /\ res2.pos = Len(wire) + 1 /\ res2.val = msg)

\* C3: the value of every input the command parser accepts serializes to
\* bytes the command parser accepts whole, with an equal value.
Parse_serialize_parse ==
    (pc = "reparsed" /\ parser = "command" /\ res.st = "Ok")
        => (msg = res.val /\ res2.st = "Ok" /\ res2.pos = Len(wire) + 1
            /\ res2.val = res.val)

\* C4: if a parser accepts an input b with remaining r, then on every prefix
\* p of b = p ++ q it returns Incomplete, or Success with the same value and a
\* remaining that is a prefix of r ++ q; it never returns Invalid.
Streaming_prefix_law ==
    pc = "split"
        => \/ pres.st = "Incomplete"
           \/ /\ pres.st = "Ok"
              /\ pres.val = res.val
              /\ IsPrefix(SubSeq(input, pres.pos, cut),
                          Rest(input, res.pos) \o Rest(input, cut + 1))

\* C4 witness: a prefix that ends inside the bytes after the reply is accepted
\* with the value of the whole input, and a shorter one is Incomplete.
Streaming_prefix_law_witness ==
    /\ pc = "split"
    /\ parser = "ehlo_ok_rsp"
    /\ Len(res.val.capabilities) = 2
    /\ cut = res.pos
    /\ cut < Len(input)
    /\ pres.st = "Ok"

\* C5: on every strict prefix of the bytes an accepted input consumed, the
\* parser returns Incomplete.
Truncated_is_Incomplete ==
    (pc = "split" /\ cut < res.pos - 1) => pres.st = "Incomplete"

\* C5 witness: the command parser returned Incomplete on "EHLO exam".
Truncated_is_Incomplete_witness ==
    /\ pc = "split"
    /\ parser = "command"
    /\ SubSeq(input, 1, cut) = "EHLO exam"
    /\ cut < res.pos - 1
    /\ pres.st = "Incomplete"

\* C6: every run of a parser ends in Success, Incomplete or Invalid; none panics.
No_panic ==
    /\ pc /= "input" => res.st \in Statuses
    /\ pc = "split" => pres.st \in Statuses
    /\ pc = "reparsed" => res2.st \in Statuses

\* C6 witness: a SIZE value that does not fit a u32 went through the conversion
\* of number, and the parser returned.
No_panic_witness ==
    /\ pc = "parsed"
    /\ parser = "ehlo_ok_rsp"
    /\ input = "250-a\r\n250 SIZE 4294967296\r\n"
    /\ res.st \in Statuses

\* C7: the bytes the command parser consumes end with CRLF and hold no other
\* CRLF; what follows them is the remaining input.
One_line_consumed ==
    (pc = "parsed" /\ parser = "command" /\ res.st = "Ok")
        => /\ res.pos >= 3
           /\ res.pos <= Len(input) + 1
           /\ SubSeq(input, res.pos - 2, res.pos - 1) = "\r\n"
           /\ \A k \in 1..(res.pos - 3) : SubSeq(input, k, k + 1) /= "\r\n"

\* C7 witness: "HELO example.com\r\n???" was accepted and "???" remains.
One_line_consumed_witness ==
    /\ pc = "parsed"
    /\ parser = "command"
    /\ input = "HELO example.com\r\n???"
    /\ res.st = "Ok"
    /\ Rest(input, res.pos) = "???"

\* C8: the lines of an accepted reply all carry the same code, every line
\* before the last has "-" after the code, and the last line has not.
Reply_framing ==
    (pc = "parsed" /\ parser = "Reply_line" /\ res.st = "Ok")
        => \A ls \in {lines[res.val]} :
               /\ \A k \in 1..Len(ls) : SubSeq(ls[k], 1, 3) = SubSeq(ls[1], 1, 3)
               /\ \A k \in 1..(Len(ls) - 1) : byte_at(ls[k], 4) = "-"
               /\ byte_at(ls[Len(ls)], 4) /= "-"

\* C9: the code of every line of an accepted reply has a first digit in 2-5,
\* a second digit in 0-5 and a third digit in 0-9.
Reply_code_range ==
    (pc = "parsed" /\ parser = "Reply_line" /\ res.st = "Ok")
        => \A ls \in {lines[res.val]} : \A k \in 1..Len(ls) :
               /\ SubSeq(ls[k], 1, 1) \in {"2", "3", "4", "5"}
               /\ SubSeq(ls[k], 2, 2) \in {"0", "1", "2", "3", "4", "5"}
               /\ SubSeq(ls[k], 3, 3) \in is_DIGIT

\* Whether b holds "SIZE=" or "SIZE " (any case) after a space or "-", followed
\* by a whole run of digits whose number is greater than 4294967295.
overflowing_SIZE(b) ==
    \E i \in 2..Len(b), j \in 2..Len(b) :
        /\ i + 5 <= j
        /\ j < Len(b)
        /\ SubSeq(b, i - 1, i - 1) \in {" ", "-"}
        /\ to_lowercase[SubSeq(b, i, i + 4)] \in {"size=", "size "}
        /\ \A k \in (i + 5)..j : SubSeq(b, k, k) \in is_DIGIT
        /\ SubSeq(b, j + 1, j + 1) \notin is_DIGIT
        /\ ~fits_u32(strip_zeros(digits_of[SubSeq(b, i + 5, j)]))

\* C10: a MAIL or RCPT line, or an EHLO reply, with a SIZE value greater than
\* 4294967295 is Invalid.
Size_overflow_is_Invalid ==
    (pc = "parsed" /\ parser \in {"command", "ehlo_ok_rsp"} /\ overflowing_SIZE(input))
        => res.st = "Error"

-----------------------------------------------------------------------------
(* Conversions between u16 and ReplyCode: a u16 is converted to a ReplyCode  *)
(* and back, and a named variant to its u16 and back.  msg is the value the *)
(* caller starts from, res the first conversion and res2 the second.        *)

\* The values of a u16
U16Values == 0..65535

\* The codes that have a variant of their own
named_set == {ReplyCodes[k][1] : k \in 1..Len(ReplyCodes)}

\* The variants other than Other
NamedVariants == {[tag |-> ReplyCodes[k][2]] : k \in 1..Len(ReplyCodes)}

InitReplyCode ==
    /\ parser = "ReplyCode"
    /\ \/ pc = "u16" /\ msg \in U16Values
       \/ pc = "variant" /\ msg \in NamedVariants
    /\ input = ""
    /\ res = NoResult
    /\ cut = 0
    /\ pres = NoResult
    /\ wire = ""
    /\ res2 = NoResult

\* ReplyCode::from(v)
FromU16 ==
    /\ pc = "u16"
    /\ res' = ReplyCode_from_u16(msg)
    /\ pc' = "from"
    /\ UNCHANGED <<parser, input, cut, pres, msg, wire, res2>>

\* u16::from(ReplyCode::from(v))
FromU16IntoU16 ==
    /\ pc = "from"
    /\ res2' = u16_from_ReplyCode(res)
    /\ pc' = "from_into"
    /\ UNCHANGED <<parser, input, res, cut, pres, msg, wire>>

\* u16::from(r)
IntoU16 ==
    /\ pc = "variant"
    /\ res' = u16_from_ReplyCode(msg)
    /\ pc' = "into"
    /\ UNCHANGED <<parser, input, cut, pres, msg, wire, res2>>

\* ReplyCode::from(u16::from(r))
IntoU16FromU16 ==
    /\ pc = "into"
    /\ res2' = ReplyCode_from_u16(res)
    /\ pc' = "into_from"
    /\ UNCHANGED <<parser, input, res, cut, pres, msg, wire>>

NextReplyCode == FromU16 \/ FromU16IntoU16 \/ IntoU16 \/ IntoU16FromU16

SpecReplyCode == InitReplyCode /\ [][NextReplyCode]_vars

\* C11: for each named variant r, ReplyCode::from(u16::from(r)) = r; for every
\* u16 v outside the named set, ReplyCode::from(v) is Other(v) and
\* u16::from(ReplyCode::from(v)) = v; for a named v, ReplyCode::from(v) is
\* never Other.
Reply_code_bijection ==
    /\ pc = "into_from" => res2 = msg
    /\ (pc \in {"from", "from_into"} /\ msg \notin named_set)
           => res = [tag |-> "Other", v |-> msg]
    /\ (pc = "from_into" /\ msg \notin named_set) => res2 = msg
    /\ (pc \in {"from", "from_into"} /\ msg \in named_set) => res.tag /= "Other"

\* C11 witness: UnableToAccommodateParameters went to 455 and back.
Reply_code_bijection_witness ==
    /\ pc = "into_from"
    /\ msg = [tag |-> "UnableToAccommodateParameters"]
    /\ res = 455
    /\ res2 = msg

-----------------------------------------------------------------------------
(* utils.rs: a string is escaped as the serializer does for a Quoted value *)
(* and unescaped as the Quoted-string parser does.                         *)

\* The longest string escaped
MaxQuotedLen == 5

\* SP, a qtextSMTP byte, the backslash and the double quote
QuotedAlphabet == {" ", "a", "\\", "\""}

InitQuoted ==
    /\ parser = "escape_quoted"
    /\ pc = "unescaped"
    /\ msg \in Repeat(QuotedAlphabet, MaxQuotedLen)
    /\ input = ""
    /\ res = NoResult
    /\ cut = 0
    /\ pres = NoResult
    /\ wire = ""
    /\ res2 = NoResult

\* escape_quoted(s)
EscapeQuoted ==
    /\ pc = "unescaped"
    /\ wire' = escape_quoted(msg)
    /\ pc' = "escaped"
    /\ UNCHANGED <<parser, input, res, cut, pres, msg, res2>>

\* unescape_quoted(escape_quoted(s))
UnescapeQuoted ==
    /\ pc = "escaped"
    /\ res2' = unescape_quoted(wire)
    /\ pc' = "unescaped_again"
    /\ UNCHANGED <<parser, input, res, cut, pres, msg, wire>>

NextQuoted == EscapeQuoted \/ UnescapeQuoted

SpecQuoted == InitQuoted /\ [][NextQuoted]_vars

\* C12: unescape_quoted(escape_quoted(s)) = s for every string s of spaces,
\* qtextSMTP bytes, backslashes and double quotes.
Quoted_involution == pc = "unescaped_again" => res2 = msg

\* C12 witness: a run of two backslashes directly followed by a quote was
\* escaped to five backslashes and a quote, and came back.
Quoted_involution_witness ==
    /\ pc = "unescaped_again"
    /\ msg = "a\\\\\""
    /\ wire = "a\\\\\\\\\\\""
    /\ res2 = msg

-----------------------------------------------------------------------------
(* Properties of the values and of the bytes written *)

\* The items joined by "\n"
RECURSIVE join_LF(_)
join_LF(items) ==
    IF Len(items) = 0 THEN ""
    ELSE IF Len(items) = 1 THEN items[1]
    ELSE items[1] \o "\n" \o join_LF(Tail(items))

\* How many bytes of s are the byte c
occurrences(s, c) == Cardinality({k \in 1..Len(s) : SubSeq(s, k, k) = c})

\* The bytes of a line from its k-th byte on, empty when the line is shorter
line_from(l, k) == IF k <= Len(l) THEN SubSeq(l, k, Len(l)) ELSE ""

\* The Domain or address-literal of the first line of a greeting, as written:
\* an address-literal is written in brackets, and the value holds what is
\* between them
greeting_host(l, domain) ==
    IF line_from(l, 5) /= "" /\ SubSeq(l, 5, 5) = "[" THEN "[" \o domain \o "]" ELSE domain

\* The text of the k-th wire line of a greeting: what follows the code, the
\* host and one space on the first line, and the code and one byte on the others
greeting_line_text(ls, k, domain) ==
    IF k = 1 THEN line_from(ls[1], 6 + Len(greeting_host(ls[1], domain)))
    ELSE line_from(ls[k], 5)

\* C13: an accepted greeting of n >= 1 lines gives the domain of the first
\* line (for an address-literal, the address in the brackets) and the n line
\* texts in wire order joined by "\n" (a line without text being the empty
\* string): n - 1 newlines and no CR.
Greeting_text ==
    (pc = "parsed" /\ parser = "Greeting" /\ res.st = "Ok")
        => \A ls \in {lines[SubSeq(input, 1, res.pos - 1)]} :
           \A host \in {greeting_host(ls[1], res.val.domain)} :
               /\ Len(ls) >= 1
               /\ IsPrefix(host, line_from(ls[1], 5))
               /\ line_from(ls[1], 5 + Len(host))
                      \in {"", " " \o line_from(ls[1], 6 + Len(host))}
               /\ res.val.text = join_LF([k \in 1..Len(ls) |->
                                             greeting_line_text(ls, k, res.val.domain)])
               /\ occurrences(res.val.text, "\n") = Len(ls) - 1
               /\ occurrences(res.val.text, "\r") = 0

\* C13 witness: a greeting of three lines, the middle one without text.
Greeting_text_witness ==
    /\ pc = "parsed"
    /\ parser = "Greeting"
    /\ input = "220-example.org hi there\r\n220-\r\n220 z\r\n"
    /\ res.st = "Ok"
    /\ res.val.domain = "example.org"
    /\ res.val.text = "hi there\n\nz"

\* The pieces of a text between its "\n" bytes: one more piece than newlines
split_LF[text \in STRING] ==
    IF find(text, "\n") = 0 THEN <<text>>
    ELSE <<SubSeq(text, 1, find(text, "\n") - 1)>>
             \o split_LF[line_from(text, find(text, "\n") + 1)]

\* The wire form of a greeting as the claim C14 has it
greeting_wire(domain, text) ==
    IF text = "" THEN "220 " \o domain \o "\r\n"
    ELSE IF find(text, "\n") = 0 THEN "220 " \o domain \o " " \o text \o "\r\n"
    ELSE "220-" \o domain \o " " \o split_LF[text][1] \o "\r\n"
             \o write_lines("220-", Front(Tail(split_LF[text])))
             \o "220 " \o Last(split_LF[text]) \o "\r\n"

\* C14: Response::Greeting { domain, text } serializes to "220 <domain>\r\n"
\* when text is empty, to "220 <domain> <text>\r\n" when text has no newline,
\* and when text has a newline to "220-<domain> <first>\r\n", "220-<line>\r\n"
\* for each middle piece and "220 <last>\r\n", one wire line per
\* newline-separated piece of text.
Greeting_serialization ==
    (pc = "serialized" /\ parser = "Greeting")
        => wire = greeting_wire(msg.domain, msg.text)

\* A capability as the claim C15 has it on the wire
capability_text(c) ==
    IF c.tag = "Size" THEN "SIZE " \o format_u32(c.size) ELSE Capability_serialize(c)

\* "250-<capability>\r\n" for each capability but the last, "250 <last>\r\n"
RECURSIVE ehlo_capability_lines(_)
ehlo_capability_lines(caps) ==
    IF Len(caps) = 1 THEN "250 " \o capability_text(caps[1]) \o "\r\n"
    ELSE "250-" \o capability_text(caps[1]) \o "\r\n" \o ehlo_capability_lines(Tail(caps))

\* C15: Response::Ehlo with no capabilities serializes to the single line
\* "250 <domain>[ <greet>]\r\n"; with n >= 1 capabilities to
\* "250-<domain>[ <greet>]\r\n", "250-<capability>\r\n" for each of the first
\* n - 1 in list order and "250 <last capability>\r\n", Size(n) as "SIZE <n>".
Ehlo_serialization ==
    (pc = "serialized" /\ parser = "ehlo_ok_rsp")
        => \A greet \in {IF msg.greet = None THEN "" ELSE " " \o msg.greet[1]} :
               wire = IF Len(msg.capabilities) = 0
                      THEN "250 " \o msg.domain \o greet \o "\r\n"
                      ELSE "250-" \o msg.domain \o greet \o "\r\n"
                               \o ehlo_capability_lines(msg.capabilities)

\* C15 witness: a greet and two capabilities, the first a Size.
Ehlo_serialization_witness ==
    /\ pc = "serialized"
    /\ parser = "ehlo_ok_rsp"
    /\ msg.greet = Some("hi there")
    /\ msg.capabilities = <<[tag |-> "Size", size |-> <<1, 2>>], [tag |-> "StartTLS"]>>
    /\ wire = "250-example.org hi there\r\n250-SIZE 12\r\n250 STARTTLS\r\n"

\* "<code>-<line>\r\n" for each line but the last, "<code> <last line>\r\n"
RECURSIVE other_reply_lines(_, _)
other_reply_lines(code, ls) ==
    IF Len(ls) = 1 THEN code \o " " \o ls[1] \o "\r\n"
    ELSE code \o "-" \o ls[1] \o "\r\n" \o other_reply_lines(code, Tail(ls))

\* C16: Response::Other { code, lines } with no lines serializes to
\* "<code>\r\n"; with n >= 1 lines to "<code>-<line>\r\n" for each of the
\* first n - 1 lines in order and "<code> <last line>\r\n", <code> being the
\* decimal u16::from(code) on every line.
Other_serialization ==
    (pc = "serialized" /\ parser = "Reply_lines")
        => \A code \in {format_u16(u16_from_ReplyCode(msg.code))} :
               wire = IF Len(msg.lines) = 0 THEN code \o "\r\n"
                      ELSE other_reply_lines(code, msg.lines)

\* C16 witness: TransactionFailed with an empty line and a last line.
Other_serialization_witness ==
    /\ pc = "serialized"
    /\ parser = "Reply_lines"
    /\ msg = [tag |-> "Other", code |-> [tag |-> "TransactionFailed"], lines |-> <<"", "a b">>]
    /\ wire = "554-\r\n554 a b\r\n"

-----------------------------------------------------------------------------
(* Spellings: the same message arrives in a spelling the parsers tolerate   *)
(* and in its canonical spelling.  msg describes the case, input holds the  *)
(* spelling, res is the parser's result on it, pres the parser's result on  *)
(* the canonical spelling, and wire the serialization of the value of res.  *)

\* The largest number of mechanisms on a generated AUTH line
MaxMechanisms == 3

\* Mechanism names as servers write them: known names in any case, names of
\* other mechanisms, and the name of another mechanism that begins with a
\* known name
AuthWireNames == {"LOGIN", "plain", "Cram-MD5", "XOAUTH2", "PLAIN-CLIENTTOKEN"}

\* An EHLO reply with the capability lines l and STARTTLS
ehlo_reply_with(l) == "250-example.org\r\n250-" \o l \o "\r\n250 STARTTLS\r\n"

\* "AUTH" sep m1 SP m2 ...
AuthCases ==
    {[kind |-> "AUTH", parser |-> "ehlo_ok_rsp", names |-> ms,
      canonical |-> ehlo_reply_with("AUTH " \o join_SP(ms)),
      spelling |-> ehlo_reply_with("AUTH=" \o join_SP(ms))]
        : ms \in SeqsUpTo(AuthWireNames, MaxMechanisms)}

\* Paths that are a Reverse-path and a Forward-path
ColonPaths == {"<a@b>", "<userx@y.foo.org>", "<@a,@b:c@d>", "<a.b@[1.2.3.4]>"}

\* "MAIL FROM:" or "RCPT TO:", n spaces, a path, parameters or none
ColonCases ==
    {[kind |-> "colon", parser |-> "command", spaces |-> Len(sp),
      well_formed |-> (path \in ColonPaths),
      canonical |-> verb \o path \o params \o "\r\n",
      spelling |-> verb \o sp \o path \o params \o "\r\n"]
        : verb \in {"MAIL FROM:", "RCPT TO:", "mail from:"},
          sp \in {" ", "  ", "   "},
          path \in PathArgs,
          params \in {"", " SIZE=1", " X-a BODY=8BITMIME"}}

\* An upper-case letter and its lower-case letter; any other byte alone
letter_cases(c) == IF Ord[c] \in 65..90 THEN {c, Chr(Ord[c] + 32)} ELSE {c}

\* The spellings of s with each of its letters in either case
case_spellings[s \in STRING] ==
    IF Len(s) = 0 THEN {""}
    ELSE {c \o t : c \in letter_cases(At(s, 1)), t \in case_spellings[Rest(s, 2)]}

\* The verbs of the command parser, each with an argument it accepts
Verbs ==
    {<<"HELO", " example.com">>, <<"EHLO", " [1.2.3.4]">>,
     <<"MAIL FROM:", "<a@b> SIZE=1">>, <<"RCPT TO:", "<Postmaster>">>,
     <<"DATA", "">>, <<"RSET", "">>, <<"VRFY", " \"a b\"">>, <<"EXPN", " list">>,
     <<"HELP", "">>, <<"HELP", " topic">>, <<"NOOP", "">>, <<"QUIT", "">>,
     <<"STARTTLS", "">>, <<"AUTH LOGIN", " dGVzdA==">>, <<"AUTH PLAIN", "">>}

\* Every spelling of every verb
VerbCases ==
    {[kind |-> "verb", parser |-> "command", verb |-> v[1],
      canonical |-> v[1] \o v[2] \o "\r\n",
      spelling |-> sp \o v[2] \o "\r\n"]
        : <<v, sp>> \in UNION {{<<w, x>> : x \in case_spellings[w[1]]} : w \in Verbs}}

SpellingCases == AuthCases \cup ColonCases \cup VerbCases

InitSpelling ==
    /\ msg \in SpellingCases
    /\ parser = msg.parser
    /\ input = msg.spelling
    /\ pc = "spelled"
    /\ res = NoResult
    /\ cut = 0
    /\ pres = NoResult
    /\ wire = ""
    /\ res2 = NoResult

\* parser(spelling)
ParseSpelling ==
    /\ pc = "spelled"
    /\ res' = run(parser, input)
    /\ pc' = "parsed_spelling"
    /\ UNCHANGED <<parser, input, cut, pres, msg, wire, res2>>

\* parser(canonical)
ParseCanonical ==
    /\ pc = "parsed_spelling"
    /\ pres' = run(parser, msg.canonical)
    /\ pc' = "compared"
    /\ UNCHANGED <<parser, input, res, cut, msg, wire, res2>>

\* value.serialize(&mut buf) for the value of the spelling
SerializeSpelling ==
    /\ pc = "compared"
    /\ res.st = "Ok"
    /\ wire' = serialize(parser, res.val)
    /\ pc' = "written"
    /\ UNCHANGED <<parser, input, res, cut, pres, msg, res2>>

NextSpelling == ParseSpelling \/ ParseCanonical \/ SerializeSpelling

SpecSpelling == InitSpelling /\ [][NextSpelling]_vars

\* The mechanism a name stands for: a known name in any case is its variant,
\* any other name is Other(name)
mechanism_of_name(name) ==
    IF \E k \in 1..Len(AuthMechanismNames) :
           to_lowercase[AuthMechanismNames[k][2]] = to_lowercase[name]
    THEN [tag |-> AuthMechanismNames[CHOOSE k \in 1..Len(AuthMechanismNames) :
                      to_lowercase[AuthMechanismNames[k][2]] = to_lowercase[name]][1]]
    ELSE [tag |-> "Other", s |-> name]

\* C17: for every list of mechanisms the line "AUTH=<m1> <m2> ..." is accepted
\* and gives the same Capability::Auth([m1, m2, ...]) as "AUTH <m1> <m2> ...",
\* known names matched in any case, the capabilities in wire order.
Auth_separator_tolerance ==
    (pc \in {"compared", "written"} /\ msg.kind = "AUTH")
        => /\ res.st = "Ok"
           /\ res = pres
           /\ res.val.capabilities =
                  <<[tag |-> "Auth",
                     mechanisms |-> [k \in 1..Len(msg.names) |->
                                        mechanism_of_name(msg.names[k])]],
                    [tag |-> "StartTLS"]>>

\* Two results with the same status and, when Ok, the same value
same_outcome(a, b) == a.st = b.st /\ (a.st = "Ok" => a.val = b.val)

\* C18: mail and rcpt accept no space or exactly one space between the colon
\* and the "<" of the path, both spellings give the same Command, and two or
\* more spaces there are Invalid.
Colon_space_tolerance ==
    (pc \in {"compared", "written"} /\ msg.kind = "colon")
        => /\ msg.well_formed => pres.st = "Ok"
           /\ msg.spaces = 1 => same_outcome(res, pres)
           /\ msg.spaces >= 2 => res.st = "Error"

\* C18 witness: "RCPT TO: <a@b> SIZE=1" gave the Command of "RCPT TO:<a@b> SIZE=1".
Colon_space_tolerance_witness ==
    /\ pc = "compared"
    /\ msg.kind = "colon"
    /\ input = "RCPT TO: <a@b> SIZE=1\r\n"
    /\ res.st = "Ok"
    /\ res.val = [tag |-> "Rcpt", forward_path |-> "<a@b>",
                  parameters |-> <<[tag |-> "Size", size |-> <<1>>]>>]
    /\ pres.st = "Ok"
    /\ pres.val = res.val

\* The bytes a..b of s that s has
slice(s, a, b) == IF a > Len(s) \/ b < a THEN "" ELSE SubSeq(s, a, Min(b, Len(s)))

\* Where the path of a "RCPT TO:" line begins: after the tag and one optional space
rcpt_path_start(b) == IF slice(b, 9, 9) = " " THEN 10 ELSE 9

\* The first of the three path forms of rcpt that does not fail at offset p
rcpt_path_form(b, p) ==
    IF Postmaster_at_Domain[b, p].st /= "Error" THEN "<Postmaster@Domain>"
    ELSE IF tag_no_case["<Postmaster>", b, p].st /= "Error" THEN "<Postmaster>"
    ELSE "Forward-path"

\* C19: rcpt takes "<Postmaster@" Domain ">" first, then "<Postmaster>", then
\* a Forward-path, the word Postmaster in any case, and forward_path is the
\* received bytes between "<" and ">" as they were written.
Rcpt_Postmaster_forms ==
    (pc = "parsed" /\ parser = "command" /\ to_lowercase[slice(input, 1, 8)] = "rcpt to:")
        => \A p \in {rcpt_path_start(input)} : \A form \in {rcpt_path_form(input, p)} :
               /\ (form = "<Postmaster@Domain>" /\ Postmaster_at_Domain[input, p].st = "Ok"
                   /\ slice(input, Postmaster_at_Domain[input, p].pos,
                             Postmaster_at_Domain[input, p].pos + 1) = "\r\n")
                      => res.st = "Ok"
               /\ (form = "<Postmaster>"
                   /\ slice(input, p + 12, p + 13) = "\r\n")
                      => (res.st = "Ok" /\ to_lowercase[res.val.forward_path] = "postmaster")
               /\ (res.st = "Ok" /\ form /= "Forward-path")
                      => to_lowercase[slice(res.val.forward_path, 1, 10)] = "postmaster"
               /\ res.st = "Ok"
                      => /\ res.val.tag = "Rcpt"
                         /\ slice(input, p, p) = "<"
                         /\ slice(input, p + 1, p + Len(res.val.forward_path))
                                = res.val.forward_path
                         /\ slice(input, p + Len(res.val.forward_path) + 1,
                                   p + Len(res.val.forward_path) + 1) = ">"

\* C20: for every verb and every upper/lower-case spelling of it the command
\* parser returns the Command it returns for the upper-case spelling, and the
\* serialization of that Command begins with the upper-case verb.
Verb_case_insensitivity ==
    (pc \in {"compared", "written"} /\ msg.kind = "verb")
        => /\ pres.st = "Ok"
           /\ same_outcome(res, pres)
           /\ pc = "written" => IsPrefix(msg.verb, wire)

\* C20 witness: "mAiL fRoM:" was read as MAIL FROM: and written back in upper case
\* (the path keeps its "<" and ">" and Command::serialize writes them once more).
Verb_case_insensitivity_witness ==
    /\ pc = "written"
    /\ msg.kind = "verb"
    /\ input = "mAiL fRoM:<a@b> SIZE=1\r\n"
    /\ res.st = "Ok"
    /\ res.val.tag = "Mail"
    /\ res.val.reverse_path = "<a@b>"
    /\ wire = "MAIL FROM:<<a@b>> SIZE=1\r\n"

-----------------------------------------------------------------------------
(* TextString::new on strings of text bytes and of control bytes, and the  *)
(* Response::Other built from an accepted string                           *)

\* The longest string handed to TextString::new
MaxTextLen == 3

\* HT, SP, two printable bytes at the ends of the range, and LF, FF, CR
TextAlphabet == {"\t", " ", "a", "~", "\n", "\f", "\r"}

InitTextString ==
    /\ parser = "TextString::new"
    /\ pc = "string"
    /\ msg \in Repeat(TextAlphabet, MaxTextLen)
    /\ input = ""
    /\ res = NoResult
    /\ cut = 0
    /\ pres = NoResult
    /\ wire = ""
    /\ res2 = NoResult

\* TextString::new(s)
NewTextString ==
    /\ pc = "string"
    /\ res' = TextString_new(msg)
    /\ pc' = "constructed"
    /\ UNCHANGED <<parser, input, cut, pres, msg, wire, res2>>

\* Response::other(code, text) for a text that was accepted
OtherOfTextString ==
    /\ pc = "constructed"
    /\ res.st = "Ok"
    /\ \E code \in {[tag |-> "Ok"], [tag |-> "Other", v |-> 299]} :
            res2' = Response_other(code, res.val)
    /\ pc' = "held"
    /\ UNCHANGED <<parser, input, res, cut, pres, msg, wire>>

NextTextString == NewTextString \/ OtherOfTextString

SpecTextString == InitTextString /\ [][NextTextString]_vars

\* Every byte of s is HT or lies in 0x20..=0x7E
text_bytes_only(s) == \A k \in 1..Len(s) : Ord[At(s, k)] = 9 \/ Ord[At(s, k)] \in 32..126

\* C21: TextString::new(s) succeeds exactly when every byte of s is 0x09 or
\* lies in 0x20..=0x7E and returns InvalidTextString otherwise, and every
\* line of a Response::Other built from its result has bytes of that class only.
TextString_invariant ==
    /\ pc \in {"constructed", "held"}
            => /\ res.st = "Ok" <=> text_bytes_only(msg)
               /\ res.st = "Ok" => res.val = msg
               /\ res.st /= "Ok" => res = InvalidTextString
    /\ pc = "held"
            => \A k \in 1..Len(res2.lines) : text_bytes_only(res2.lines[k])

\* C21 witness: a string with a tab and a tilde was accepted and is held by a
\* Response::Other.
TextString_invariant_witness ==
    /\ pc = "held"
    /\ msg = "\ta~"
    /\ res2.lines = <<"\ta~">>

\* C21, the other side: a string with a line feed was refused.
TextString_refused_witness ==
    /\ pc = "constructed"
    /\ msg = "a\n"
    /\ res = InvalidTextString

-----------------------------------------------------------------------------
(* parse_trace: a recorded session is read message by message, each parser *)
(* applied to what the previous one left                                   *)

\* The largest number of command/reply exchanges in a generated session
MaxExchanges == 2

\* FindSubstring::find_substring: the offset of the first occurrence of t in
\* s at or after i; 0 if there is none.
find_substring[s \in STRING, t \in STRING, i \in Nat] ==
    IF i + Len(t) - 1 > Len(s) THEN 0
    ELSE IF SubSeq(s, i, i + Len(t) - 1) = t THEN i
    ELSE find_substring[s, t, i + 1]

TraceGreetings ==
    {<<"220 foo.com Service Ready\r\n">>,
     <<"220 foo.com\r\n">>,
     <<"220-foo.com hi\r\n220-\r\n220 ready\r\n">>}

\* A command and what the server sends for it; for DATA the reply, the mail
\* text up to the line with the single dot, and the reply to the mail text.
TraceExchanges ==
    {<<"EHLO bar.com\r\n",
       "250-foo.com greets bar.com\r\n250-8BITMIME\r\n250-SIZE\r\n250-DSN\r\n250 HELP\r\n">>,
     <<"ehlo [10.0.0.1]\r\n", "250 foo.com\r\n">>,
     <<"EHLO bar.com\r\n", "250-foo.com\r\n250-SIZE 100\r\n250 AUTH PLAIN LOGIN\r\n">>,
     <<"HELO bar.com\r\n", "250 foo.com\r\n">>,
     <<"HELO xn--abc.example\r\n", "250 foo.com\r\n">>,
     <<"EHLO bar.com\r\n", "250-foo.com\r\n250 HELPER\r\n">>,
     <<"MAIL FROM:<Smith@bar.com>\r\n", "250 OK\r\n">>,
     <<"RCPT TO:<Green@foo.com>\r\n", "550 No such user here\r\n">>,
     <<"VRFY Crispin\r\n", "250 Mark Crispin <Admin.MRC@foo.com>\r\n">>,
     <<"NOOP\r\n", "250-a\r\n250-\r\n250 b\r\n">>,
     <<"RSET\r\n", "250\r\n">>,
     <<"DATA\r\n", "354 Start mail input\r\n", "Blah\r\n...etc.\r\n.\r\n", "250 OK\r\n">>,
     <<"QUIT\r\n", "221 foo.com closing\r\n">>}

\* The messages of the sequences, in order
RECURSIVE flatten(_)
flatten(seqs) == IF Len(seqs) = 0 THEN <<>> ELSE seqs[1] \o flatten(Tail(seqs))

\* The items one after the other
RECURSIVE concat(_)
concat(items) == IF Len(items) = 0 THEN "" ELSE items[1] \o concat(Tail(items))

\* The messages of a session: a greeting, then the exchanges
TraceMessages ==
    {g \o flatten(es) : g \in TraceGreetings, es \in SeqsUpTo(TraceExchanges, MaxExchanges)}

\* msg: the messages the session was recorded from; input: the trace not yet
\* read; cut: the number of messages read; wire: the bytes the last step read.
InitTrace ==
    /\ parser = "parse_trace"
    /\ pc = "greeting"
    /\ msg \in TraceMessages
    /\ input = concat(msg)
    /\ res = NoResult
    /\ cut = 0
    /\ pres = NoResult
    /\ wire = ""
    /\ res2 = NoResult

\* let (rem, value) = p(trace).unwrap(); trace = rem;
TraceStep(p, next) ==
    /\ res' = run(p, input)
    /\ IF res'.st = "Ok"
       THEN /\ input' = Rest(input, res'.pos)
            /\ wire' = SubSeq(input, 1, res'.pos - 1)
            /\ cut' = cut + 1
            /\ pc' = next
       ELSE /\ pc' = "unwrap_failed"
            /\ UNCHANGED <<input, wire, cut>>
    /\ UNCHANGED <<parser, pres, msg, res2>>

\* let (rem, greeting) = Greeting(trace).unwrap();
TraceGreeting == pc = "greeting" /\ TraceStep("Greeting", "loop")

\* if trace.is_empty() { break; }
TraceEnd ==
    /\ pc = "loop"
    /\ input = ""
    /\ pc' = "end"
    /\ UNCHANGED <<parser, input, res, cut, pres, msg, wire, res2>>

\* let (rem, cmd) = command(trace).unwrap(); match cmd { ... }
TraceCommand ==
    /\ pc = "loop"
    /\ input /= ""
    /\ res' = run("command", input)
    /\ IF res'.st = "Ok"
       THEN /\ input' = Rest(input, res'.pos)
            /\ wire' = SubSeq(input, 1, res'.pos - 1)
            /\ cut' = cut + 1
            /\ pc' = CASE res'.val.tag = "Ehlo" -> "ehlo_reply"
                       [] res'.val.tag = "Data" -> "data_reply"
                       [] OTHER -> "reply"
       ELSE /\ pc' = "unwrap_failed"
            /\ UNCHANGED <<input, wire, cut>>
    /\ UNCHANGED <<parser, pres, msg, res2>>

\* Command::Ehlo { .. } => ehlo_ok_rsp(trace).unwrap()
TraceEhloReply == pc = "ehlo_reply" /\ TraceStep("ehlo_ok_rsp", "loop")

\* _ => Reply_lines(trace).unwrap(), and the reply to the mail text
TraceReply == pc = "reply" /\ TraceStep("Reply_lines", "loop")

\* Command::Data { .. } => Reply_lines(trace).unwrap()
TraceDataReply == pc = "data_reply" /\ TraceStep("Reply_lines", "data")

\* let pos = trace.find_substring("\r\n.\r\n").unwrap();
\* let (data, rem) = trace.split_at(pos + 5);
TraceData ==
    /\ pc = "data"
    /\ res' = find_substring[input, "\r\n.\r\n", 1]
    /\ IF res' /= 0
       THEN /\ input' = Rest(input, res' + 5)
            /\ wire' = SubSeq(input, 1, res' + 4)
            /\ cut' = cut + 1
            /\ pc' = "reply"
       ELSE /\ pc' = "unwrap_failed"
            /\ UNCHANGED <<input, wire, cut>>
    /\ UNCHANGED <<parser, pres, msg, res2>>

NextTrace ==
    \/ TraceGreeting
    \/ TraceEnd
    \/ TraceCommand
    \/ TraceEhloReply
    \/ TraceReply
    \/ TraceDataReply
    \/ TraceData

SpecTrace == InitTrace /\ [][NextTrace]_vars

\* C22: on a buffer that is a greeting followed by commands, each followed by
\* its reply (an EHLO reply for EHLO, reply lines otherwise), every step of
\* parse_trace succeeds, the bytes a step reads are exactly the next message,
\* and nothing remains after the last reply.
Trace_framing ==
    /\ pc /= "unwrap_failed"
    /\ cut <= Len(msg)
    /\ cut >= 1 => wire = msg[cut]
    /\ input = concat(SubSeq(msg, cut + 1, Len(msg)))
    /\ pc = "end" => cut = Len(msg) /\ input = ""

-----------------------------------------------------------------------------
(* The Return-Path and Received line parsers on header lines and on every  *)
(* prefix of them                                                          *)

HeaderParsers == {"return_path_line", "time_stamp_line"}

HeaderLines ==
    {"Return-Path: <a@b>\r\n",
     "return-path:<>\r\n",
     "Received: FROM a.b BY [1.2.3.4] ; 1 Jan 2020 00:00 +0000\r\n",
     "received:from a.b\r\n",
     "Subject: hi\r\n",
     "Retry: 1\r\n"}

\* The prefixes of the lines, the empty one and the whole line included
HeaderInputs == UNION {{SubSeq(l, 1, k) : k \in 0..Len(l)} : l \in HeaderLines}

InitHeader ==
    /\ parser \in HeaderParsers
    /\ input \in HeaderInputs
    /\ pc = "header"
    /\ res = NoResult
    /\ cut = 0
    /\ pres = NoResult
    /\ msg = ""
    /\ wire = ""
    /\ res2 = NoResult

\* return_path_line(input) or time_stamp_line(input)
ParseHeader ==
    /\ pc = "header"
    /\ res' = (IF parser = "return_path_line" THEN return_path_line[input, 1]
               ELSE time_stamp_line[input, 1])
    /\ pc' = "header_parsed"
    /\ UNCHANGED <<parser, input, cut, pres, msg, wire, res2>>

NextHeader == ParseHeader

SpecHeader == InitHeader /\ [][NextHeader]_vars

\* C23: return_path_line and time_stamp_line return Success, Incomplete or
\* Invalid for every input, the inputs that begin with "Return-Path:" or
\* "Received:" included; no input reaches a panic.
Header_parsers_never_panic ==
    pc = "header_parsed" => res.st \in {"Ok", "Incomplete", "Error"}

\* C24: the value g of every input the Greeting parser accepts serializes to
\* bytes the Greeting parser accepts whole, with a value equal to g; so for
\* greetings whose first, middle or last line carries no text.
Greeting_parse_serialize_parse ==
    (pc = "reparsed" /\ parser = "Greeting")
        => (res2.st = "Ok" /\ res2.pos = Len(wire) + 1 /\ res2.val = res.val)

-----------------------------------------------------------------------------
(* alt over every short list of branch results, and the padding choice of  *)
(* base64 on short inputs                                                  *)

\* The largest number of branches of a generated alternative
MaxBranches == 3

\* What a branch can report: Success (two of them, to tell the branches
\* apart), Incomplete or Invalid
BranchResults == {Ok(2, "a"), Ok(3, "bb"), Incomplete, Error}

PaddingInputs == {"", "=", "==", "=\r\n", "==\r\n", "=a", "a", "\r\n"}

\* msg: the results of the branches, in their order
InitAlt ==
    /\ parser = "alt"
    /\ \/ /\ pc = "branches"
          /\ msg \in SeqsUpTo(BranchResults, MaxBranches) \ {<<>>}
          /\ input = ""
       \/ /\ pc = "padding"
          /\ input \in PaddingInputs
          /\ msg = <<>>
    /\ res = NoResult
    /\ cut = 0
    /\ pres = NoResult
    /\ wire = ""
    /\ res2 = NoResult

\* alt((branch_1, ..., branch_n))(input)
Alt ==
    /\ pc = "branches"
    /\ res' = alt(msg)
    /\ pc' = "chosen"
    /\ UNCHANGED <<parser, input, cut, pres, msg, wire, res2>>

\* alt((tag("=="), tag("=")))(input), the padding choice of base64
AltPadding ==
    /\ pc = "padding"
    /\ msg' = <<tag["==", input, 1], tag["=", input, 1]>>
    /\ res' = alt(msg')
    /\ pc' = "chosen"
    /\ UNCHANGED <<parser, input, cut, pres, wire, res2>>

NextAlt == Alt \/ AltPadding

SpecAlt == InitAlt /\ [][NextAlt]_vars

\* The branches that report st
branches_with(st) == {k \in DOMAIN msg : msg[k].st = st}

\* C25 as stated: the first branch that succeeds wins; Invalid only if every
\* branch reports Invalid; Incomplete only if some branch reports Incomplete
\* and no branch succeeds; on "=" the padding choice succeeds with "=".
Alt_first_success ==
    pc = "chosen"
        => /\ branches_with("Ok") /= {} => res = msg[least(branches_with("Ok"))]
           /\ res.st = "Error" => branches_with("Error") = DOMAIN msg
           /\ res.st = "Incomplete"
                => branches_with("Incomplete") /= {} /\ branches_with("Ok") = {}
           /\ input = "=" => res = Ok(2, "=")

\* C25, amended: the result of an alternative is the result of the first
\* branch that does not report Invalid, so a success wins only if every
\* branch before it reports Invalid; it reports Invalid exactly if every
\* branch reports Invalid, and it reports Incomplete exactly if a branch
\* reports Incomplete and every branch before it reports Invalid, whatever
\* the branches after it would report. On "=" the padding choice reports
\* Incomplete, and on "=" followed by another byte it succeeds with "=".
Alt_first_decisive ==
    pc = "chosen"
        => /\ res.st = "Error" <=> branches_with("Error") = DOMAIN msg
           /\ branches_with("Error") /= DOMAIN msg
                => res = msg[least(DOMAIN msg \ branches_with("Error"))]
           /\ res.st = "Incomplete"
                <=> \E k \in branches_with("Incomplete") :
                        \A j \in 1..(k - 1) : msg[j].st = "Error"
           /\ res.st = "Ok"
                <=> \E k \in branches_with("Ok") :
                        /\ res = msg[k]
                        /\ \A j \in 1..(k - 1) : msg[j].st = "Error"
           /\ input = "=" => res = Incomplete
           /\ input \in {"=a", "=\r\n"} => res = Ok(2, "=")
           /\ input \in {"==", "==\r\n"} => res = Ok(3, "==")

\* C25 witness: on "=" the branch "==" reported Incomplete, the branch "="
\* would have succeeded, and the alternative reported Incomplete.
Alt_first_decisive_witness ==
    /\ pc = "chosen"
    /\ input = "="
    /\ msg = <<Incomplete, Ok(2, "=")>>
    /\ res = Incomplete

\* The argument of a "HELO " or "EHLO " line: the bytes up to the first CR
helo_argument(b) == slice(b, 6, find(b, "\r") - 1)

\* d is labels joined by ".", each label letters, digits and hyphens that
\* begin and end with a letter or a digit
is_ldh_domain(d) ==
    /\ Len(d) >= 1
    /\ \A k \in 1..Len(d) : At(d, k) \in is_Let_dig \cup {"-", "."}
    /\ At(d, 1) \in is_Let_dig
    /\ At(d, Len(d)) \in is_Let_dig
    /\ \A k \in 2..(Len(d) - 1) :
            At(d, k) = "." => At(d, k - 1) \in is_Let_dig /\ At(d, k + 1) \in is_Let_dig

\* C26: Ldh_str, and through it sub_domain and Domain, accept in full every
\* string of letters, digits and hyphens that ends in a letter or digit, runs
\* of hyphens included: a HELO or EHLO line whose argument is such labels
\* joined by "." is accepted up to its CRLF with the argument as the domain.
Ldh_str_grammar ==
    (/\ pc = "parsed"
     /\ parser = "command"
     /\ slice(input, 1, 5) \in {"HELO ", "EHLO ", "ehlo "}
     /\ is_ldh_domain(helo_argument(input))
     /\ slice(input, find(input, "\r"), find(input, "\r") + 1) = "\r\n")
        => /\ res.st = "Ok"
           /\ res.pos = find(input, "\r") + 2
           /\ res.val.domain_or_address = [tag |-> "Domain", s |-> helo_argument(input)]

\* C27: address_literal accepts every "[IPv6:" addr "]" whose addr is of one
\* of the forms IPv6-full, IPv6-comp, IPv6v4-full and IPv6v4-comp: the HELO
\* line with the literal is accepted up to its CRLF and the literal is
\* returned without its brackets.
IPv6_literals_accepted ==
    \A a \in IPv6Addrs : \A tail \in Tails :
        (pc = "parsed" /\ parser = "command" /\ input = "HELO [IPv6:" \o a \o "]\r\n" \o tail)
            => /\ res.st = "Ok"
               /\ res.pos = Len(input) - Len(tail) + 1
               /\ res.val = [tag |-> "Helo",
                             domain_or_address |-> [tag |-> "Address", s |-> "IPv6:" \o a]]
               /\ addr_address_literal[input, 6] = Ok(Len(input) - Len(tail) - 1, "IPv6:" \o a)

\* C28: every EHLO line ehlo-keyword *( SP ehlo-param ) whose keyword is none
\* of the recognised ones, a keyword that begins with a recognised one
\* included, is accepted inside ehlo_ok_rsp and becomes Capability::Other
\* with the whole keyword and its params in order.
Unknown_keyword_is_Other ==
    \A k \in UnknownKeywords : \A ps \in EhloParamLists : \A tail \in Tails :
        (/\ pc = "parsed"
         /\ parser = "ehlo_ok_rsp"
         /\ input = "250-a\r\n250 " \o join_SP(<<k>> \o ps) \o "\r\n" \o tail)
            => /\ res.st = "Ok"
               /\ res.pos = Len(input) - Len(tail) + 1
               /\ res.val.capabilities = <<[tag |-> "Other", keyword |-> k, params |-> ps]>>

\* C29: snum matches only a decimal number of one to three digits whose
\* value lies in 0 through 255, so "[" Snum 3("." Snum) "]" with a number
\* above 255 is not accepted as an IPv4 address literal.
Snum_range ==
    \A a \in SnumTexts : \A d \in SnumTexts : \A tail \in Tails :
        (/\ pc = "parsed"
         /\ parser = "command"
         /\ input = "HELO [" \o a \o ".1.1." \o d \o "]\r\n" \o tail)
            => /\ snum[input, 7].st = "Ok" => from_str_radix[snum[input, 7].val, 0] \in 0..255
               /\ (from_str_radix[a, 0] > 255 \/ from_str_radix[d, 0] > 255)
                    => /\ ipv4_address_literal[input, 7].st /= "Ok"
                       /\ res.st /= "Ok"

-----------------------------------------------------------------------------
(* Command values whose strings are any bytes, serialized and parsed       *)

\* Strings a caller can put into the public String fields of a Command
PayloadStrings == {"a", "a b", "a\\b\"c", "a\r\nQUIT", "\r\n", "a\rb", "a\nb", ""}

PayloadAtomOrQuoted == {[tag |-> t, s |-> x] : t \in {"Atom", "Quoted"}, x \in PayloadStrings}

PayloadParameters ==
    {<<>>, <<[tag |-> "Size", size |-> <<1>>]>>}
        \cup {<<[tag |-> "Other", keyword |-> k, value |-> v]>> :
                 k \in {"X", "X\r\nQUIT"}, v \in {None, Some("y"), Some("y\r\nQUIT")}}

PayloadCommandValues ==
    {[tag |-> t, domain_or_address |-> [tag |-> d, s |-> x]] :
        t \in {"Helo", "Ehlo"}, d \in {"Domain", "Address"}, x \in PayloadStrings}
        \cup {[tag |-> "Mail", reverse_path |-> p, parameters |-> ps] :
                 p \in PayloadStrings, ps \in PayloadParameters}
        \cup {[tag |-> "Rcpt", forward_path |-> p, parameters |-> ps] :
                 p \in PayloadStrings, ps \in PayloadParameters}
        \cup {[tag |-> t] : t \in {"Data", "Rset", "Quit", "StartTLS"}}
        \cup {[tag |-> "Vrfy", user_or_mailbox |-> a] : a \in PayloadAtomOrQuoted}
        \cup {[tag |-> "Expn", mailing_list |-> a] : a \in PayloadAtomOrQuoted}
        \cup {[tag |-> t, argument |-> a] :
                 t \in {"Help", "Noop"}, a \in {None} \cup {Some(x) : x \in PayloadAtomOrQuoted}}
        \cup {[tag |-> t, initial |-> b] :
                 t \in {"AuthLogin", "AuthPlain"}, b \in {None} \cup {Some(x) : x \in PayloadStrings}}

InitPayload ==
    /\ parser = "command"
    /\ msg \in PayloadCommandValues
    /\ pc = "built"
    /\ input = ""
    /\ res = NoResult
    /\ cut = 0
    /\ pres = NoResult
    /\ wire = ""
    /\ res2 = NoResult

SpecPayload == InitPayload /\ [][NextValue]_vars

\* Where s has CR LF
CRLF_offsets(s) == {k \in 1..(Len(s) - 1) : SubSeq(s, k, k + 1) = "\r\n"}

\* C30: Command::serialize writes exactly one CRLF, as the last two bytes,
\* whatever the strings of the Command contain, and the command parser does
\* not accept a proper prefix of the bytes of one Command.
One_value_one_line ==
    /\ pc \in {"serialized", "reparsed"} => CRLF_offsets(wire) = {Len(wire) - 1}
    /\ (pc = "reparsed" /\ res2.st = "Ok") => res2.pos = Len(wire) + 1

=============================================================================
